---- MODULE Spec2Model ----
(***************************************************************************)
(* A model of json_rs: the tokenizer (src/src/tokenizer.rs), the tokens    *)
(* (src/src/token.rs), the errors (src/src/error.rs), the decoder          *)
(* (src/src/de.rs) and the encoder (src/src/ser.rs).                       *)
(*                                                                         *)
(* Text is a sequence of Unicode code points (naturals).  Offsets are      *)
(* UTF-8 byte offsets, as str::CharIndices yields them, so a code point    *)
(* above 0x7F moves the offset by more than one.                           *)
(***************************************************************************)
EXTENDS Integers, Sequences, FiniteSets, TLC

(***************************************************************************)
(* Code points the source names in its patterns and literals.              *)
(***************************************************************************)
ChTab == 9
ChLF == 10
ChCR == 13
ChSpace == 32
ChQuote == 34
ChPlus == 43
ChComma == 44
ChMinus == 45
ChDot == 46
ChSlash == 47
Ch0 == 48
Ch9 == 57
ChColon == 58
ChUpperA == 65
ChUpperE == 69
ChUpperF == 70
ChUpperU == 85
ChLBracket == 91
ChBackslash == 92
ChRBracket == 93
ChLowerA == 97
ChLowerB == 98
ChLowerE == 101
ChLowerF == 102
ChLowerK == 107
ChLowerL == 108
ChLowerN == 110
ChLowerR == 114
ChLowerS == 115
ChLowerT == 116
ChLowerU == 117
ChLCurly == 123
ChRCurly == 125
ChBS == 8
ChFF == 12
ChBOM == 65279

(***************************************************************************)
(* UTF-8: the number of bytes of a code point, the byte length of a text,  *)
(* and the byte offset of the i-th code point (i = Len + 1: input.len()).  *)
(***************************************************************************)
Width(c) == IF c < 128 THEN 1 ELSE IF c < 2048 THEN 2 ELSE IF c < 65536 THEN 3 ELSE 4

RECURSIVE ByteLen(_)
ByteLen(s) == IF s = <<>> THEN 0 ELSE Width(Head(s)) + ByteLen(Tail(s))

Off(inp, i) == ByteLen(SubSeq(inp, 1, i - 1))

(***************************************************************************)
(* Results: Ok(token) or Err(error); a step of the tokenizer is the        *)
(* result and the position of the char iterator after it (the index of     *)
(* the next code point, 1-based; Len + 1 at the end).                      *)
(***************************************************************************)
Ok(t) == [ok |-> TRUE, tok |-> t]
Err(e) == [ok |-> FALSE, err |-> e]
Step(r, i) == [res |-> r, cur |-> i]

(* token.rs: the Token enum *)
TOperator(text, s, e) == [kind |-> "Operator", text |-> text, start |-> s, end |-> e]
TBracket(text, s, e) == [kind |-> "Bracket", text |-> text, start |-> s, end |-> e]
TNull(s, e) == [kind |-> "Null", start |-> s, end |-> e]
TBool(b, s, e) == [kind |-> "Bool", val |-> b, start |-> s, end |-> e]
TString(isEscaped, str, s, e) ==
    [kind |-> "String", escaped |-> isEscaped, str |-> str, start |-> s, end |-> e]
TNumber(n, s, e) == [kind |-> "Number", num |-> n, start |-> s, end |-> e]
TEOF == [kind |-> "EOF"]

(* error.rs: the Error enum *)
EInvalidEscape(at, ch) == [e |-> "InvalidEscape", at |-> at, ch |-> ch]
EInvalidHexEscape(at, ch) == [e |-> "InvalidHexEscape", at |-> at, ch |-> ch]
EInvalidEscapeValue(at, v) == [e |-> "InvalidEscapeValue", at |-> at, val |-> v]
EUnterminatedString(at) == [e |-> "UnterminatedString", at |-> at]
EEofWhileParsingValue(at) == [e |-> "EofWhileParsingValue", at |-> at]
EWanted(at, ex, found) == [e |-> "Wanted", at |-> at, expected |-> ex, found |-> found]
EInvalidNumber(s) == [e |-> "InvalidNumber", lexeme |-> s]
ENotSupportedChar(ch, at) == [e |-> "NotSupportedChar", ch |-> ch, at |-> at]
EOpNotExist(s) == [e |-> "OpNotExist", op |-> s]
EJSONKeyMustBeString == [e |-> "JSONKeyMustBeString"]
EInvalidStructString == [e |-> "InvalidStructString"]
EInvalidEnumString == [e |-> "InvalidEnumString"]
EMessage(m) == [e |-> "Message", msg |-> m]

(***************************************************************************)
(* Character classes.                                                      *)
(***************************************************************************)
IsAsciiDigit(ch) == ch >= Ch0 /\ ch <= Ch9

is_digit_char(ch) ==
    \/ IsAsciiDigit(ch)
    \/ ch \in {ChDot, ChLowerE, ChUpperE, ChMinus, ChPlus}

(* a whitespace test that knows the space alone *)
is_space_char(ch) == ch = ChSpace

is_whitespace_char(ch) == ch \in {ChSpace, ChTab, ChCR, ChLF}

(***************************************************************************)
(* Decimal numerals.  An integer is kept as its sign and the digits of     *)
(* its magnitude without leading zeros (zero: no digits, never negative),  *)
(* so that the 64-bit range is decided on the numeral itself.              *)
(***************************************************************************)
RECURSIVE StripZeros(_)
StripZeros(d) ==
    IF d # <<>> /\ Head(d) = 0 THEN StripZeros(Tail(d)) ELSE d

RECURSIVE StripTrailingZeros(_)
StripTrailingZeros(d) ==
    IF d # <<>> /\ d[Len(d)] = 0 THEN StripTrailingZeros(SubSeq(d, 1, Len(d) - 1)) ELSE d

DigitVals(s) == [k \in 1..Len(s) |-> s[k] - Ch0]

(* a <= b for magnitudes without leading zeros *)
RECURSIVE LexLeq(_, _)
LexLeq(a, b) ==
    IF a = <<>> THEN TRUE
    ELSE IF Head(a) # Head(b) THEN Head(a) < Head(b)
    ELSE LexLeq(Tail(a), Tail(b))

MagLeq(a, b) == Len(a) < Len(b) \/ (Len(a) = Len(b) /\ LexLeq(a, b))

(* the index after the longest run of ASCII digits of s that starts at i *)
RECURSIVE DigitRunEnd(_, _)
DigitRunEnd(s, i) ==
    IF i <= Len(s) /\ IsAsciiDigit(s[i]) THEN DigitRunEnd(s, i + 1) ELSE i

(* i8 .. i64, u8 .. u64: the largest magnitudes of each integer type *)
I64Max == <<9, 2, 2, 3, 3, 7, 2, 0, 3, 6, 8, 5, 4, 7, 7, 5, 8, 0, 7>>
I64MinMag == <<9, 2, 2, 3, 3, 7, 2, 0, 3, 6, 8, 5, 4, 7, 7, 5, 8, 0, 8>>
I8Max == <<1, 2, 7>>
I8MinMag == <<1, 2, 8>>
U8Max == <<2, 5, 5>>

IntType(name) ==
    CASE name = "i64" -> [signed |-> TRUE, max |-> I64Max, minMag |-> I64MinMag]
      [] name = "i8" -> [signed |-> TRUE, max |-> I8Max, minMag |-> I8MinMag]
      [] name = "u8" -> [signed |-> FALSE, max |-> U8Max, minMag |-> <<>>]

IntValue(neg, mag) == [neg |-> neg /\ mag # <<>>, digits |-> mag]

(* the digits d behind as many zeros as make n digits *)
PadTo(d, n) == [k \in 1..n |-> IF k <= n - Len(d) THEN 0 ELSE d[k - (n - Len(d))]]

(* a + b and a - b (for a >= b) on magnitudes, digit by digit from the     *)
(* right: s is the sum of the digits at k and the carry, d the difference  *)
(* of the digits at k less the borrow                                      *)
RECURSIVE MagAddAt(_, _, _, _)
RECURSIVE MagAddDigit(_, _, _, _)
MagAddDigit(a, b, k, s) == MagAddAt(a, b, k - 1, s \div 10) \o <<s % 10>>
MagAddAt(a, b, k, carry) ==
    IF k = 0 THEN (IF carry = 0 THEN <<>> ELSE <<carry>>)
    ELSE MagAddDigit(a, b, k, a[k] + b[k] + carry)

RECURSIVE MagSubAt(_, _, _, _)
RECURSIVE MagSubDigit(_, _, _, _)
MagSubDigit(a, b, k, d) ==
    MagSubAt(a, b, k - 1, IF d < 0 THEN 1 ELSE 0) \o <<IF d < 0 THEN d + 10 ELSE d>>
MagSubAt(a, b, k, borrow) ==
    IF k = 0 THEN <<>>
    ELSE MagSubDigit(a, b, k, a[k] - b[k] - borrow)

LongerOf(a, b) == IF Len(a) >= Len(b) THEN Len(a) ELSE Len(b)
MagAdd(a, b) ==
    StripZeros(MagAddAt(PadTo(a, LongerOf(a, b)), PadTo(b, LongerOf(a, b)), LongerOf(a, b), 0))
MagSub(a, b) == StripZeros(MagSubAt(a, PadTo(b, Len(a)), Len(a), 0))

(* the magnitude of a natural number *)
RECURSIVE NatMag(_)
NatMag(n) == IF n = 0 THEN <<>> ELSE NatMag(n \div 10) \o <<n % 10>>

(* u64: its largest value, and 2^64 *)
U64Max == <<1, 8, 4, 4, 6, 7, 4, 4, 0, 7, 3, 7, 0, 9, 5, 5, 1, 6, 1, 5>>
TwoTo64 == <<1, 8, 4, 4, 6, 7, 4, 4, 0, 7, 3, 7, 0, 9, 5, 5, 1, 6, 1, 6>>

(* `v as i64` for a u64 v of the magnitude mag: the same 64 bits read as   *)
(* two's complement, so a value of 2^63 or more is that value less 2^64    *)
U64AsI64(mag) ==
    IF MagLeq(mag, I64Max) THEN IntValue(FALSE, mag)
    ELSE IntValue(TRUE, MagSub(TwoTo64, mag))

(***************************************************************************)
(* str::parse::<iN / uN>(): an optional sign ('+', and '-' for a signed    *)
(* type), then one or more ASCII digits and nothing else; a value out of   *)
(* the type's range is an error.                                           *)
(***************************************************************************)
ParseInt(s, ty) ==
    LET t == IntType(ty)
        signedMinus == s # <<>> /\ Head(s) = ChMinus /\ t.signed
        hasSign == s # <<>> /\ Len(s) > 1 /\ (Head(s) = ChPlus \/ signedMinus)
        body == IF hasSign THEN Tail(s) ELSE s
        mag == StripZeros(DigitVals(body))
    IN  IF body = <<>> \/ DigitRunEnd(body, 1) # Len(body) + 1
        THEN [ok |-> FALSE]
        ELSE IF hasSign /\ signedMinus
             THEN IF MagLeq(mag, t.minMag)
                  THEN [ok |-> TRUE, val |-> IntValue(TRUE, mag)]
                  ELSE [ok |-> FALSE]
             ELSE IF MagLeq(mag, t.max)
                  THEN [ok |-> TRUE, val |-> IntValue(FALSE, mag)]
                  ELSE [ok |-> FALSE]

(***************************************************************************)
(* str::parse::<f64>() on a lexeme of the number scan: [sign] digits       *)
(* ['.' digits] [('e'|'E') [sign] digits], with a digit in the mantissa    *)
(* and in a present exponent.  The value is kept as the exact decimal      *)
(* sign * digits * 10^exp with no leading and no trailing zero digit, so   *)
(* 42.0 and 4.2e1 are the same value; the rounding of a numeral of more    *)
(* than 17 significant digits to the nearest double is not modelled, and   *)
(* an exponent of more than MaxExpDigits digits is beyond the doubles      *)
(* (the parse still succeeds: infinity or zero).                           *)
(***************************************************************************)
MaxExpDigits == 3

RECURSIVE DigitsToNat(_)
DigitsToNat(d) == IF d = <<>> THEN 0 ELSE 10 * DigitsToNat(SubSeq(d, 1, Len(d) - 1)) + d[Len(d)]

FloatValue(neg, mant, e) ==
    LET m == StripTrailingZeros(StripZeros(mant))
        shift == Len(StripZeros(mant)) - Len(m)
    IN  IF m = <<>> THEN [neg |-> neg, digits |-> <<>>, exp |-> 0]
        ELSE [neg |-> neg, digits |-> m, exp |-> e + shift]

(* the value of a numeral with the mantissa digits int and frac and the    *)
(* exponent digits eDigits: beyond MaxExpDigits digits infinity or zero    *)
F64Of(neg, int, frac, hasExp, eNeg, eDigits) ==
    IF hasExp /\ Len(eDigits) > MaxExpDigits /\ StripZeros(DigitVals(int \o frac)) # <<>>
    THEN IF eNeg THEN FloatValue(neg, <<>>, 0)
         ELSE [neg |-> neg, digits |-> <<>>, exp |-> 0, inf |-> TRUE]
    ELSE FloatValue(neg, DigitVals(int \o frac),
                    (IF ~hasExp \/ Len(eDigits) > MaxExpDigits THEN 0
                     ELSE IF eNeg THEN 0 - DigitsToNat(eDigits)
                     ELSE DigitsToNat(eDigits)) - Len(frac))

(* the numeral s with its mantissa in p..b-1 (the dot, if any, at a), its  *)
(* exponent digits in c..d-1 when hasExp, and nothing after d              *)
F64Parts(s, p, a, b, hasExp, c, d) ==
    IF (a - p) + (IF b > a THEN b - a - 1 ELSE 0) = 0 \/ d # Len(s) + 1 \/ (hasExp /\ d = c)
    THEN [ok |-> FALSE]
    ELSE [ok |-> TRUE,
          val |-> F64Of(s[1] = ChMinus, SubSeq(s, p, a - 1),
                        IF b > a THEN SubSeq(s, a + 1, b - 1) ELSE <<>>,
                        hasExp, hasExp /\ s[b + 1] = ChMinus,
                        StripZeros(DigitVals(SubSeq(s, c, d - 1))))]

(* after the mantissa p..b-1: an 'e' or 'E', a sign, the exponent digits *)
F64Exponent(s, p, a, b, hasExp, c) ==
    F64Parts(s, p, a, b, hasExp, c, IF hasExp THEN DigitRunEnd(s, c) ELSE b)

F64Mantissa(s, p, a, b) ==
    F64Exponent(s, p, a, b, b <= Len(s) /\ s[b] \in {ChLowerE, ChUpperE},
                IF b + 1 <= Len(s) /\ s[b + 1] \in {ChPlus, ChMinus} THEN b + 2 ELSE b + 1)

(* after the integer digits p..a-1: a dot and the fraction digits *)
F64Fraction(s, p, a) ==
    F64Mantissa(s, p, a, IF a <= Len(s) /\ s[a] = ChDot THEN DigitRunEnd(s, a + 1) ELSE a)

F64Digits(s, p) == F64Fraction(s, p, DigitRunEnd(s, p))

ParseF64(s) ==
    IF s = <<>> THEN [ok |-> FALSE]
    ELSE F64Digits(s, IF s[1] \in {ChPlus, ChMinus} THEN 2 ELSE 1)

(* token.rs: ParseNumber *)
NumI64(v) == [t |-> "I64", neg |-> v.neg, digits |-> v.digits]
NumF64(v) == [t |-> "F64", val |-> v]

(***************************************************************************)
(* tokenizer.rs.  The tokenizer is the input and the position of its       *)
(* CharIndices iterator; every operator below takes the input and the      *)
(* index of the next code point and gives the result with the new index.   *)
(***************************************************************************)

(* a cursor that counts code points instead of bytes *)
currentCountsChars(inp, i) == i - 1

(* Tokenizer::current: the byte offset of the next code point, or input.len() *)
current(inp, i) == Off(inp, i)

(* Tokenizer::eatc *)
eatc(inp, i, ch) == IF i <= Len(inp) /\ inp[i] = ch THEN i + 1 ELSE i

(* Tokenizer::new: one leading byte-order mark is eaten *)
TokNew(inp) == eatc(inp, 1, ChBOM)

(* Tokenizer::eat_whitespace *)
RECURSIVE eat_whitespace(_, _)
eat_whitespace(inp, i) ==
    IF i <= Len(inp) /\ is_whitespace_char(inp[i]) THEN eat_whitespace(inp, i + 1) ELSE i

(* Tokenizer::bracket_token, called after the bracket at index j was taken *)
bracket_token(inp, j) ==
    Step(Ok(TBracket(<<inp[j]>>, Off(inp, j), Off(inp, j) + 1)), j + 1)

(* Tokenizer::operator_token *)
operator_token(inp, j) ==
    Step(Ok(TOperator(<<inp[j]>>, Off(inp, j), Off(inp, j) + 1)), j + 1)

(* a parse_ident that reports the found character as the expected one *)
RECURSIVE parse_identSwapped(_, _, _)
parse_identSwapped(inp, i, expected) ==
    IF expected = <<>> THEN [ok |-> TRUE, cur |-> i]
    ELSE IF i > Len(inp)
         THEN [ok |-> FALSE, err |-> EEofWhileParsingValue(current(inp, i)), cur |-> i]
    ELSE IF inp[i] # Head(expected)
         THEN [ok |-> FALSE, err |-> EWanted(Off(inp, i), inp[i], Head(expected)),
               cur |-> i + 1]
    ELSE parse_identSwapped(inp, i + 1, Tail(expected))

(* Tokenizer::parse_ident: [ok, cur] or [ok, err, cur] *)
RECURSIVE parse_ident(_, _, _)
parse_ident(inp, i, expected) ==
    IF expected = <<>> THEN [ok |-> TRUE, cur |-> i]
    ELSE IF i > Len(inp)
         THEN [ok |-> FALSE, err |-> EEofWhileParsingValue(current(inp, i)), cur |-> i]
    ELSE IF inp[i] # Head(expected)
         THEN [ok |-> FALSE, err |-> EWanted(Off(inp, i), Head(expected), inp[i]),
               cur |-> i + 1]
    ELSE parse_ident(inp, i + 1, Tail(expected))

LitRue == <<ChLowerR, ChLowerU, ChLowerE>>
LitAlse == <<ChLowerA, ChLowerL, ChLowerS, ChLowerE>>
LitUll == <<ChLowerU, ChLowerL, ChLowerL>>

(* Tokenizer::bool_token, called after the 't' or 'f' at index j was taken *)
bool_token(inp, j, val) ==
    LET parsed(r) ==
            IF r.ok THEN Step(Ok(TBool(val, Off(inp, j), current(inp, r.cur))), r.cur)
            ELSE Step(Err(r.err), r.cur)
    IN  parsed(parse_ident(inp, j + 1, IF val THEN LitRue ELSE LitAlse))

(* Tokenizer::null_token *)
null_token(inp, j) ==
    LET parsed(r) ==
            IF r.ok THEN Step(Ok(TNull(Off(inp, j), current(inp, r.cur))), r.cur)
            ELSE Step(Err(r.err), r.cur)
    IN  parsed(parse_ident(inp, j + 1, LitUll))

(* the loop of Tokenizer::number_token: take code points while is_digit_char *)
RECURSIVE NumberScan(_, _)
NumberScan(inp, i) ==
    IF i <= Len(inp) /\ is_digit_char(inp[i]) THEN NumberScan(inp, i + 1) ELSE i

(* a classification that tries the float parse before the integer parse *)
ClassifyFloatFirst(s) ==
    LET pick(asInt, asFloat) ==
            IF asFloat.ok THEN [ok |-> TRUE, num |-> NumF64(asFloat.val)]
            ELSE IF asInt.ok THEN [ok |-> TRUE, num |-> NumI64(asInt.val)]
            ELSE [ok |-> FALSE]
    IN  pick(ParseInt(s, "i64"), ParseF64(s))

(* Tokenizer::number_token, the two parses of the lexeme: as an i64, and   *)
(* when that fails as an f64                                               *)
Classify(s) ==
    LET pick(asInt, asFloat) ==
            IF asInt.ok THEN [ok |-> TRUE, num |-> NumI64(asInt.val)]
            ELSE IF asFloat.ok THEN [ok |-> TRUE, num |-> NumF64(asFloat.val)]
            ELSE [ok |-> FALSE]
    IN  pick(ParseInt(s, "i64"), ParseF64(s))

(* Tokenizer::number_token, the token of the lexeme from index j up to e *)
NumberLexeme(inp, j, e, n) ==
    IF n.ok THEN Step(Ok(TNumber(n.num, Off(inp, j), current(inp, e))), e)
    ELSE Step(Err(EInvalidNumber(SubSeq(inp, j, e - 1))), e)

(* Tokenizer::number_token, called after the digit or '-' at index j was taken *)
number_token(inp, j) ==
    LET scanned(e) == NumberLexeme(inp, j, e, Classify(SubSeq(inp, j, e - 1)))
    IN  scanned(NumberScan(inp, j + 1))

(***************************************************************************)
(* Hexadecimal escapes.  A u32 read from at most 8 hex digits is kept as   *)
(* a natural when it is below 16^6 and as 16^6 (above every code point)    *)
(* otherwise; char::from_u32 refuses the surrogates and what lies above    *)
(* 0x10FFFF.                                                               *)
(***************************************************************************)
IsAsciiHexDigit(ch) ==
    \/ IsAsciiDigit(ch)
    \/ (ch >= ChLowerA /\ ch <= ChLowerF)
    \/ (ch >= ChUpperA /\ ch <= ChUpperF)

HexDigitVal(ch) ==
    IF IsAsciiDigit(ch) THEN ch - Ch0
    ELSE IF ch >= ChLowerA /\ ch <= ChLowerF THEN ch - ChLowerA + 10
    ELSE ch - ChUpperA + 10

U32Cap == 16777216
SurrogateLo == 55296
SurrogateHi == 57343
CharMax == 1114111

RECURSIVE from_str_radix16(_)
from_str_radix16(buf) ==
    IF buf = <<>> THEN 0
    ELSE LET hi == from_str_radix16(SubSeq(buf, 1, Len(buf) - 1))
         IN  IF hi * 16 >= U32Cap THEN U32Cap
             ELSE hi * 16 + HexDigitVal(buf[Len(buf)])

(* a conversion that lets the surrogates through *)
char_from_u32Lax(v) ==
    IF v <= CharMax THEN [some |-> TRUE, ch |-> v] ELSE [some |-> FALSE]

char_from_u32(v) ==
    IF v <= CharMax /\ ~(v >= SurrogateLo /\ v <= SurrogateHi)
    THEN [some |-> TRUE, ch |-> v]
    ELSE [some |-> FALSE]

(* Tokenizer::hex: start is the offset of the backslash, at the offset of  *)
(* the 'u' or 'U', n the digits still to read, buf the digits read         *)
RECURSIVE hex(_, _, _, _, _, _)
hex(inp, i, start, at, n, buf) ==
    IF n = 0
    THEN LET val == from_str_radix16(buf)
             c == char_from_u32(val)
         IN  IF c.some THEN [ok |-> TRUE, ch |-> c.ch, cur |-> i]
             ELSE [ok |-> FALSE, err |-> EInvalidEscapeValue(at, val), cur |-> i]
    ELSE IF i > Len(inp)
         THEN [ok |-> FALSE, err |-> EUnterminatedString(start), cur |-> i]
    ELSE IF inp[i] <= 127 /\ IsAsciiHexDigit(inp[i])
         THEN hex(inp, i + 1, start, at, n - 1, Append(buf, inp[i]))
    ELSE [ok |-> FALSE, err |-> EInvalidHexEscape(Off(inp, i), inp[i]), cur |-> i + 1]

(* Tokenizer::parse_escape: i is the index after the backslash, start the  *)
(* offset of the backslash; gives the scratch buffer after the push        *)
parse_escape(inp, i, start, scratch) ==
    IF i > Len(inp)
    THEN [ok |-> FALSE, err |-> EUnterminatedString(start), cur |-> i]
    ELSE LET ch == inp[i]
             push(c) == [ok |-> TRUE, scratch |-> Append(scratch, c), cur |-> i + 1]
         IN  CASE ch = ChQuote -> push(ChQuote)
               [] ch = ChBackslash -> push(ChBackslash)
               [] ch = ChSlash -> push(ChSlash)
               [] ch = ChLowerB -> push(ChBS)
               [] ch = ChLowerF -> push(ChFF)
               [] ch = ChLowerN -> push(ChLF)
               [] ch = ChLowerR -> push(ChCR)
               [] ch = ChLowerT -> push(ChTab)
               [] ch \in {ChLowerU, ChUpperU} ->
                    LET pushed(h) ==
                            IF h.ok
                            THEN [ok |-> TRUE, scratch |-> Append(scratch, h.ch),
                                  cur |-> h.cur]
                            ELSE h
                    IN  pushed(hex(inp, i + 1, start, Off(inp, i),
                                   IF ch = ChLowerU THEN 4 ELSE 8, <<>>))
               [] OTHER -> [ok |-> FALSE, err |-> EInvalidEscape(Off(inp, i), ch),
                            cur |-> i + 1]

(* the loop of Tokenizer::string_token: j is the index of the opening      *)
(* quote, i the index of the next code point                               *)
RECURSIVE StringLoop(_, _, _, _, _)
StringLoop(inp, j, i, scratch, escaped) ==
    IF i > Len(inp)
    THEN Step(Err(EUnterminatedString(current(inp, i))), i)
    ELSE IF inp[i] = ChBackslash
         THEN LET escape(r) ==
                      IF r.ok THEN StringLoop(inp, j, r.cur, r.scratch, TRUE)
                      ELSE Step(Err(r.err), r.cur)
              IN  escape(parse_escape(inp, i + 1, Off(inp, i),
                                      scratch \o SubSeq(inp, j + 1, i - 1)))
    ELSE IF inp[i] = ChQuote
         THEN IF escaped
              THEN Step(Ok(TString(TRUE, scratch, Off(inp, j), current(inp, i + 1))), i + 1)
              ELSE Step(Ok(TString(FALSE, SubSeq(inp, j + 1, i - 1),
                                   Off(inp, j), current(inp, i + 1))), i + 1)
    ELSE StringLoop(inp, j, i + 1, IF escaped THEN Append(scratch, inp[i]) ELSE scratch,
                    escaped)

(* a string_token that copies from the opening quote on *)
string_tokenCopying(inp, j) == StringLoop(inp, j, j + 1, <<>>, TRUE)

(* Tokenizer::string_token *)
string_token(inp, j) == StringLoop(inp, j, j + 1, <<>>, FALSE)

(* Tokenizer::next, the match on the code point at index j, the first      *)
(* that is no whitespace                                                   *)
NextAt(inp, j) ==
    IF j > Len(inp) THEN Step(Ok(TEOF), j)
    ELSE CASE inp[j] \in {ChLBracket, ChRBracket, ChLCurly, ChRCurly} ->
                  bracket_token(inp, j)
           [] inp[j] \in {ChComma, ChColon} -> operator_token(inp, j)
           [] inp[j] = ChLowerT -> bool_token(inp, j, TRUE)
           [] inp[j] = ChLowerF -> bool_token(inp, j, FALSE)
           [] inp[j] = ChLowerN -> null_token(inp, j)
           [] IsAsciiDigit(inp[j]) -> number_token(inp, j)
           [] inp[j] = ChMinus -> number_token(inp, j)
           [] inp[j] = ChQuote -> string_token(inp, j)
           [] OTHER -> Step(Err(ENotSupportedChar(inp[j], Off(inp, j))), j + 1)

(* Tokenizer::next *)
TokNext(inp, i) == NextAt(inp, eat_whitespace(inp, i))

(* a peek that scans on the tokenizer itself instead of a clone *)
TokPeekNoClone(inp, i) == TokNext(inp, i)

(* Tokenizer::peek: next() on a clone; the tokenizer itself does not move *)
TokPeek(inp, i) == Step(TokNext(inp, i).res, i)

(* Token::checkOp *)
checkOp(tok, op) == tok.kind \in {"Bracket", "Operator"} /\ tok.text = op

(* Tokenizer::expect: Ok(()) is Ok of the unit token *)
OkUnit == [ok |-> TRUE]

(* an expect that leaves a token it did not ask for in place *)
TokExpectLeaving(inp, i, s) ==
    LET got(r) ==
            IF ~r.res.ok THEN r
            ELSE IF r.res.tok.kind \in {"Operator", "Bracket"} /\ r.res.tok.text = s
                 THEN Step(OkUnit, r.cur)
                 ELSE Step(Err(EOpNotExist(s)), i)
    IN  got(TokNext(inp, i))

(* an expect that takes whatever token comes for the one asked for *)
TokExpectAny(inp, i, s) ==
    LET got(r) ==
            IF ~r.res.ok THEN r
            ELSE Step(OkUnit, r.cur)
    IN  got(TokNext(inp, i))

TokExpect(inp, i, s) ==
    LET got(r) ==
            IF ~r.res.ok THEN r
            ELSE IF r.res.tok.kind \in {"Operator", "Bracket"} /\ r.res.tok.text = s
                 THEN Step(OkUnit, r.cur)
                 ELSE Step(Err(EOpNotExist(s)), r.cur)
    IN  got(TokNext(inp, i))

(***************************************************************************)
(* The state.  A tokenizer over `input` with its iterator at `cur`; `op`,  *)
(* `res` and `before` are the last operation called on it, what it         *)
(* returned and where the iterator stood when it was called; `peeked` is   *)
(* what the operation before returned when that was a peek.  `access` is   *)
(* the accessor a visitor holds over the decoder (SeqAccess, MapAccess),   *)
(* `given` the value given to the encoder, and `twin` a second tokenizer   *)
(* over the same text behind a prefix.  `ser` is the encoder in the middle *)
(* of its calls: the collections opened and not yet ended.                 *)
(***************************************************************************)
VARIABLES input, cur, op, res, before, peeked, access, given, twin, ser

vars == <<input, cur, op, res, before, peeked, access, given, twin, ser>>

NoPeek == [none |-> TRUE]
NoAccess == [kind |-> "none"]
NoValue == [k |-> "none"]
NoTwin == [none |-> TRUE]
NoSer == [none |-> TRUE]
OpNew == [name |-> "new"]
OpNext == [name |-> "next"]
OpPeek == [name |-> "peek"]
OpExpect(s) == [name |-> "expect", arg |-> s]

(***************************************************************************)
(* Inputs: every concatenation of at most MaxPieces pieces.                *)
(***************************************************************************)
RECURSIVE Concat(_)
Concat(ss) == IF ss = <<>> THEN <<>> ELSE Head(ss) \o Concat(Tail(ss))

RECURSIVE SeqsUpTo(_, _)
SeqsUpTo(S, n) ==
    IF n = 0 THEN {<<>>}
    ELSE LET shorter == SeqsUpTo(S, n - 1)
         IN  shorter \cup {Append(q, x) : q \in {r \in shorter : Len(r) = n - 1}, x \in S}

TextsOf(pieces, n) == {Concat(q) : q \in SeqsUpTo(pieces, n)}

MaxPieces == 3
ChEAcute == 233
ChLowerX == 120
Ch1 == 49

TokPieces ==
    { <<ChLBracket>>, <<ChComma>>,
      <<ChLowerT, ChLowerR, ChLowerU, ChLowerE>>,
      <<ChMinus, Ch1>>,
      <<ChQuote, ChEAcute, ChQuote>>,
      <<ChQuote, ChBackslash, ChLowerN, ChQuote>>,
      <<ChQuote>>, <<ChSpace>>, <<ChBOM>>, <<ChLowerX>> }

TokInputs == TextsOf(TokPieces, MaxPieces)

ExpectArgs == {<<ChComma>>, <<ChRBracket>>, <<ChLBracket>>}

InitTok(inputs) ==
    /\ input \in inputs
    /\ cur = TokNew(input)
    /\ op = OpNew
    /\ res = OkUnit
    /\ before = 1
    /\ peeked = NoPeek
    /\ access = NoAccess
    /\ given = NoValue
    /\ twin = NoTwin
    /\ ser = NoSer

Called(o, step) ==
    /\ op' = o
    /\ res' = step.res
    /\ cur' = step.cur
    /\ before' = cur
    /\ peeked' = IF op = OpPeek THEN res ELSE NoPeek
    /\ UNCHANGED <<input, access, given, twin, ser>>

DoNext == Called(OpNext, TokNext(input, cur))

DoPeek == Called(OpPeek, TokPeek(input, cur))

DoExpect == \E s \in ExpectArgs : Called(OpExpect(s), TokExpect(input, cur, s))

NextTok ==
    \/ DoNext
    \/ DoPeek
    \/ DoExpect

Init == InitTok(TokInputs)

Next == NextTok

Spec == Init /\ [][Next]_vars


(***************************************************************************)
(* String literals: a quote, at most MaxStrPieces pieces (escapes and      *)
(* plain code points), a quote.  Among them the literal "A\n\t\"".    *)
(***************************************************************************)
MaxStrPieces == 4
Ch4 == 52

StrPieces ==
    { <<ChBackslash, ChLowerU, Ch0, Ch0, Ch4, Ch1>>,
      <<ChBackslash, ChLowerN>>,
      <<ChBackslash, ChLowerT>>,
      <<ChBackslash, ChQuote>>,
      <<ChLowerA>>, <<ChEAcute>> }

StrInputs == {<<ChQuote>> \o b \o <<ChQuote>> : b \in TextsOf(StrPieces, MaxStrPieces)}

SpecStr == InitTok(StrInputs) /\ [][Next]_vars

(***************************************************************************)
(* String literals with one escape: a quote, nothing or a character, a     *)
(* backslash, the letter of the escape (or none), and at most              *)
(* MaxHexPieces pieces of hex digits, other characters and quotes.  Among  *)
(* them "\uD800", "\U00110000", "\u00g", "\x" and "\u00 cut short.         *)
(***************************************************************************)
MaxHexPieces == 3
Ch8 == 56
ChUpperD == 68
ChLowerG == 103

EscPrefixes == {<<>>, <<ChEAcute>>}
EscLetters == {<<>>, <<ChLowerU>>, <<ChUpperU>>, <<ChLowerX>>}

HexPieces ==
    { <<Ch0, Ch0, Ch0, Ch0>>, <<ChUpperD, Ch8, Ch0, Ch0>>,
      <<Ch0, Ch0, Ch1, Ch1>>, <<ChUpperF, ChUpperF, ChUpperF, ChUpperF>>,
      <<Ch0, Ch0>>, <<ChLowerG>>, <<ChQuote>> }

EscInputs ==
    { <<ChQuote>> \o pre \o <<ChBackslash>> \o letter \o body :
          pre \in EscPrefixes, letter \in EscLetters,
          body \in TextsOf(HexPieces, MaxHexPieces) }

SpecEsc == InitTok(EscInputs) /\ [][Next]_vars

(***************************************************************************)
(* Keyword literals: at most MaxKwPieces pieces, the keywords whole and    *)
(* cut short among them.                                                   *)
(***************************************************************************)
MaxKwPieces == 2

KwPieces ==
    { <<ChLowerT>>, <<ChLowerT, ChLowerR>>, <<ChLowerT, ChLowerR, ChLowerU>>,
      <<ChLowerT, ChLowerR, ChLowerU, ChLowerE>>,
      <<ChLowerF>>, <<ChLowerF, ChLowerA, ChLowerL>>,
      <<ChLowerF, ChLowerA, ChLowerL, ChLowerS, ChLowerE>>,
      <<ChLowerN>>, <<ChLowerN, ChLowerU>>, <<ChLowerN, ChLowerU, ChLowerL, ChLowerL>>,
      <<ChLowerL>>, <<ChLowerE>>, <<ChLowerX>>, <<ChEAcute>>, <<ChSpace>>, <<ChComma>> }

KwInputs == TextsOf(KwPieces, MaxKwPieces)

SpecKw == InitTok(KwInputs) /\ [][Next]_vars

(***************************************************************************)
(* Number lexemes: every text of at most MaxNumLen code points over the    *)
(* characters of the number scan and a comma, and the numerals the         *)
(* specification names, with those at the ends of the 64-bit range.        *)
(***************************************************************************)
MaxNumLen == 4
Ch2 == 50
Ch3 == 51

NumAlphabet == {Ch0, Ch1, ChMinus, ChDot, ChLowerE, ChPlus, ChComma}

Numeral(digits) == [k \in 1..Len(digits) |-> digits[k] + Ch0]

NumExamples ==
    { <<Ch4, Ch2>>, <<ChMinus, Ch0>>, <<Ch4, Ch2, ChDot, Ch0>>,
      <<Ch4, ChDot, Ch2, ChLowerE, Ch1>>, <<Ch4, ChDot, Ch2, ChUpperE, Ch1>>,
      <<Ch1, ChDot, Ch2, ChDot, Ch3>>, <<ChMinus>>, <<Ch1, ChMinus, Ch2>>,
      Numeral(I64Max), Numeral(I64MinMag),
      <<ChMinus>> \o Numeral(I64MinMag), <<ChMinus>> \o Numeral(I64MinMag) \o <<Ch0>> }

NumInputs == SeqsUpTo(NumAlphabet, MaxNumLen) \cup NumExamples

SpecNum == InitTok(NumInputs) /\ [][Next]_vars


(***************************************************************************)
(* Values of the data model, as a binding hands them to the encoder and    *)
(* receives them from the decoder.  A map or struct is the sequence of     *)
(* its entries in the order the binding visits them.                       *)
(***************************************************************************)
VNull == [k |-> "null"]
VBool(b) == [k |-> "bool", b |-> b]
VInt(neg, digits) == [k |-> "int", n |-> IntValue(neg, digits)]
(* a u64 of the magnitude mag *)
VU64(mag) == [k |-> "u64", mag |-> mag]
VFloat(f) == [k |-> "float", f |-> f]
VStr(str) == [k |-> "str", s |-> str]
VSeq(items) == [k |-> "seq", items |-> items]
VMap(entries) == [k |-> "map", entries |-> entries]
VStruct(name, fields) == [k |-> "struct", name |-> name, fields |-> fields]
VUnitVariant(name, variant) == [k |-> "unit_variant", name |-> name, variant |-> variant]
VNewtypeVariant(name, variant, payload) ==
    [k |-> "newtype_variant", name |-> name, variant |-> variant, payload |-> payload]
VTupleVariant(name, variant, items) ==
    [k |-> "tuple_variant", name |-> name, variant |-> variant, items |-> items]
VStructVariant(name, variant, fields) ==
    [k |-> "struct_variant", name |-> name, variant |-> variant, fields |-> fields]

(***************************************************************************)
(* ser.rs.  The serializer is its output buffer; every method takes the    *)
(* buffer and gives the buffer after the call.                             *)
(***************************************************************************)
StrTrue == <<ChLowerT, ChLowerR, ChLowerU, ChLowerE>>
StrFalse == <<ChLowerF, ChLowerA, ChLowerL, ChLowerS, ChLowerE>>
StrNull == <<ChLowerN, ChLowerU, ChLowerL, ChLowerL>>

ends_with(out, ch) == out # <<>> /\ out[Len(out)] = ch

(* i64::to_string *)
I64ToString(n) ==
    IF n.digits = <<>> THEN <<Ch0>>
    ELSE (IF n.neg THEN <<ChMinus>> ELSE <<>>) \o Numeral(n.digits)

(* Serializer::serialize_bool *)
serialize_bool(out, v) == out \o (IF v THEN StrTrue ELSE StrFalse)

(* Serializer::serialize_i64 *)
serialize_i64(out, v) == out \o I64ToString(v)

(* Serializer::serialize_u64 *)
serialize_u64(out, v) == serialize_i64(out, U64AsI64(v))

(* Serializer::serialize_str: the text between two quotes, as it is *)
serialize_str(out, v) == out \o <<ChQuote>> \o v \o <<ChQuote>>

(* Serializer::serialize_unit *)
serialize_unit(out) == out \o StrNull

(* a serialize_unit_variant that writes the name of the enum *)
serialize_unit_variantByName(out, name, variant) == serialize_str(out, name)

(* Serializer::serialize_unit_variant *)
serialize_unit_variant(out, name, variant) == serialize_str(out, variant)

(* Serializer::serialize_newtype_variant: name and variant are written,    *)
(* value is not, and no brace closes the object                            *)
serialize_newtype_variant(out, name, variant, value) ==
    serialize_str(serialize_str(out \o <<ChLCurly>>, name) \o <<ChColon>>, variant)

(* Serializer::serialize_seq, serialize_tuple, serialize_tuple_struct *)
serialize_seq(out) == out \o <<ChLBracket>>

(* Serializer::serialize_tuple_variant *)
serialize_tuple_variant(out, name, variant) ==
    serialize_str(out \o <<ChRCurly>>, variant) \o <<ChColon, ChLBracket>>

(* Serializer::serialize_map, serialize_struct *)
serialize_map(out) == out \o <<ChLCurly>>

(* Serializer::serialize_struct_variant *)
serialize_struct_variant(out, name, variant) ==
    serialize_str(out \o <<ChLCurly>>, variant) \o <<ChColon, ChLCurly>>

(* a separator written before every member, the first too *)
SeqSeparatorAlways(out) == out \o <<ChComma>>

(* the comma of SerializeSeq / SerializeTuple / SerializeTupleStruct /     *)
(* SerializeTupleVariant ::serialize_element and serialize_field           *)
SeqSeparator(out) == IF ~ends_with(out, ChLBracket) THEN out \o <<ChComma>> ELSE out

(* the comma of SerializeMap::serialize_key and of SerializeStruct /       *)
(* SerializeStructVariant ::serialize_field                                *)
MapSeparator(out) == IF ~ends_with(out, ChLCurly) THEN out \o <<ChComma>> ELSE out

(* SerializeSeq::end, SerializeTuple::end, SerializeTupleStruct::end *)
SeqEnd(out) == out \o <<ChRBracket>>

(* SerializeTupleVariant::end *)
TupleVariantEnd(out) == out \o <<ChRBracket, ChRCurly>>

(* SerializeMap::end, SerializeStruct::end *)
MapEnd(out) == out \o <<ChRCurly>>

(* SerializeStructVariant::end *)
StructVariantEnd(out) == out \o <<ChRCurly, ChRCurly>>

(***************************************************************************)
(* value.serialize(serializer): the calls the binding of a value makes,    *)
(* and with them SerializeSeq::serialize_element, SerializeMap::           *)
(* serialize_key / serialize_value and Serialize*::serialize_field, which  *)
(* write the separator and call back into the binding of the member.       *)
(***************************************************************************)
RECURSIVE Serialize(_, _)

(* serialize_element / serialize_field of a sequence, tuple, tuple variant *)
RECURSIVE SerializeElements(_, _)
SerializeElements(items, out) ==
    IF items = <<>> THEN out
    ELSE SerializeElements(Tail(items), Serialize(Head(items), SeqSeparator(out)))

(* serialize_key then serialize_value of each entry of a map *)
RECURSIVE SerializeEntries(_, _)
SerializeEntries(entries, out) ==
    IF entries = <<>> THEN out
    ELSE LET key == Serialize(Head(entries)[1], MapSeparator(out)) \o <<ChColon>>
         IN  SerializeEntries(Tail(entries), Serialize(Head(entries)[2], key))

(* serialize_field of each field of a struct or struct variant: the key    *)
(* is a &'static str                                                       *)
RECURSIVE SerializeFields(_, _)
SerializeFields(fields, out) ==
    IF fields = <<>> THEN out
    ELSE LET key == serialize_str(MapSeparator(out), Head(fields)[1]) \o <<ChColon>>
         IN  SerializeFields(Tail(fields), Serialize(Head(fields)[2], key))

Serialize(v, out) ==
    CASE v.k = "null" -> serialize_unit(out)
      [] v.k = "bool" -> serialize_bool(out, v.b)
      [] v.k = "int" -> serialize_i64(out, v.n)
      [] v.k = "u64" -> serialize_u64(out, v.mag)
      [] v.k = "str" -> serialize_str(out, v.s)
      [] v.k = "seq" -> SeqEnd(SerializeElements(v.items, serialize_seq(out)))
      [] v.k = "map" -> MapEnd(SerializeEntries(v.entries, serialize_map(out)))
      [] v.k = "struct" -> MapEnd(SerializeFields(v.fields, serialize_map(out)))
      [] v.k = "unit_variant" -> serialize_unit_variant(out, v.name, v.variant)
      [] v.k = "newtype_variant" ->
             serialize_newtype_variant(out, v.name, v.variant, v.payload)
      [] v.k = "tuple_variant" ->
             TupleVariantEnd(SerializeElements(v.items,
                                 serialize_tuple_variant(out, v.name, v.variant)))
      [] v.k = "struct_variant" ->
             StructVariantEnd(SerializeFields(v.fields,
                                 serialize_struct_variant(out, v.name, v.variant)))

(* ser.rs: to_string *)
to_string(v) == Serialize(v, <<>>)


(***************************************************************************)
(* Bindings.  What decodes a value is the Deserialize implementation of    *)
(* its type, which calls one deserialize_* method of the decoder with a    *)
(* visitor.  A binding is described by the type it decodes:                *)
(*   TValue                   any value (a visitor that accepts every      *)
(*                            visit: a generic JSON value, IgnoredAny)     *)
(*   TUnit                    ()                                           *)
(*   TMap(key, val)           a map with keys "String", "i8", "u8", "i64"  *)
(*   TTuple(items)            a tuple of the given types                   *)
(*   TStruct(name, fields)    a struct, fields = << <<name, type>>, .. >>  *)
(*   TEnum(name, variants)    an enum, variants = << [name, shape, ..] >>  *)
(* A visit the visitor of the type does not implement is serde's           *)
(* "invalid type" error, Error::custom(..) = Error::Message.               *)
(***************************************************************************)
TValue == [t |-> "Value"]
TUnit == [t |-> "Unit"]
TMap(key, val) == [t |-> "Map", key |-> key, val |-> val]
TTuple(items) == [t |-> "Tuple", items |-> items]
TStruct(name, fields) == [t |-> "Struct", name |-> name, fields |-> fields]
TEnum(name, variants) == [t |-> "Enum", name |-> name, variants |-> variants]
TIdent(names) == [t |-> "Ident", names |-> names]
UnitShape(variant) == [name |-> variant, shape |-> "unit"]
NewtypeShape(variant, ty) == [name |-> variant, shape |-> "newtype", ty |-> ty]
TupleShape(variant, items) == [name |-> variant, shape |-> "tuple", items |-> items]
StructShape(variant, fields) == [name |-> variant, shape |-> "struct", fields |-> fields]

DeOk(v, i) == [ok |-> TRUE, val |-> v, cur |-> i]
DeErr(e, i) == [ok |-> FALSE, err |-> e, cur |-> i]

(* a pull of an accessor: an element or key, the end, or an error; with    *)
(* the accessor's `first` flag after the pull                              *)
PullSome(v, i, first) == [ok |-> TRUE, some |-> TRUE, val |-> v, cur |-> i, first |-> first]
PullNone(i, first) == [ok |-> TRUE, some |-> FALSE, cur |-> i, first |-> first]
PullErr(e, i, first) == [ok |-> FALSE, err |-> e, cur |-> i, first |-> first]

InvalidType == EMessage("invalid type")

IndexOf(names, n) ==
    IF \E k \in 1..Len(names) : names[k] = n
    THEN CHOOSE k \in 1..Len(names) : names[k] = n /\ \A m \in 1..(k - 1) : names[m] # n
    ELSE 0

FieldNames(fields) == [k \in 1..Len(fields) |-> fields[k][1]]
VariantNames(variants) == [k \in 1..Len(variants) |-> variants[k].name]

(* the visitor's visit_bool, visit_unit, visit_i64, visit_f64,             *)
(* visit_string and visit_borrowed_str: v is the value visited             *)
VisitScalar(ty, v, i) ==
    CASE ty.t = "Value" -> DeOk(v, i)
      [] ty.t = "Unit" /\ v.k = "null" -> DeOk(v, i)
      [] ty.t = "Ident" /\ v.k = "str" -> DeOk(IndexOf(ty.names, v.s), i)
      [] OTHER -> DeErr(InvalidType, i)

(***************************************************************************)
(* de.rs: MapKey, the decoder of a key of a map.  Its result is the        *)
(* visit made on the visitor of the key: the method and its argument.      *)
(***************************************************************************)
KeyVisit(method, arg) == [visit |-> method, arg |-> arg]

(* a MapKey that takes a token of any kind for a key *)
KeyOfAnyToken(n) ==
    IF ~n.res.ok THEN DeErr(n.res.err, n.cur)
    ELSE IF n.res.tok.kind = "String"
         THEN DeOk(KeyVisit(IF n.res.tok.escaped THEN "visit_string"
                            ELSE "visit_borrowed_str", n.res.tok.str), n.cur)
         ELSE DeOk(KeyVisit("visit_unit", <<>>), n.cur)

(* MapKey::deserialize_any, the match on the token n that next() gave *)
KeyOf(n) ==
    IF ~n.res.ok THEN DeErr(n.res.err, n.cur)
    ELSE IF n.res.tok.kind = "String"
         THEN DeOk(KeyVisit(IF n.res.tok.escaped THEN "visit_string"
                            ELSE "visit_borrowed_str", n.res.tok.str), n.cur)
         ELSE DeErr(EJSONKeyMustBeString, n.cur)

(* MapKey::deserialize_any *)
MapKey_deserialize_any(inp, i) == KeyOf(TokNext(inp, i))

(* an integer key that fails on a text that is no integer *)
IntegerKeyVisitStrict(ity, tmp, parsed, at) ==
    IF parsed.ok THEN DeOk(KeyVisit("visit_" \o ity, parsed.val), at)
    ELSE DeErr(InvalidType, at)

(* deserialize_integer_key!, the visit for the text tmp of the key *)
IntegerKeyVisit(ity, tmp, parsed, at) ==
    IF parsed.ok THEN DeOk(KeyVisit("visit_" \o ity, parsed.val), at)
    ELSE DeOk(KeyVisit("visit_string", tmp), at)

(* deserialize_integer_key!, the match on the token n that next() gave *)
IntegerKeyOf(ity, n) ==
    IF ~n.res.ok THEN DeErr(n.res.err, n.cur)
    ELSE IF n.res.tok.kind = "String"
         THEN IntegerKeyVisit(ity, n.res.tok.str, ParseInt(n.res.tok.str, ity), n.cur)
         ELSE DeErr(EJSONKeyMustBeString, n.cur)

(* deserialize_integer_key!: MapKey::deserialize_i8 .. deserialize_u128 *)
deserialize_integer_key(inp, i, ity) == IntegerKeyOf(ity, TokNext(inp, i))

(* K::deserialize(MapKey): the method the key type calls *)
MapKey_deserialize(kty, inp, i) ==
    IF kty = "String" THEN MapKey_deserialize_any(inp, i)
    ELSE deserialize_integer_key(inp, i, kty)

(* the visitor of a key type: a String key takes a string, an integer key  *)
(* takes its integer and refuses a string                                  *)
KeyVisitor(kty, r) ==
    IF ~r.ok THEN r
    ELSE IF r.val.visit \in {"visit_string", "visit_borrowed_str"}
         THEN IF kty = "String" THEN DeOk(VStr(r.val.arg), r.cur)
              ELSE DeErr(InvalidType, r.cur)
         ELSE DeOk([k |-> "int", n |-> r.val.arg], r.cur)

(***************************************************************************)
(* de.rs: the decoder and its accessors.                                   *)
(***************************************************************************)
RECURSIVE Deserialize(_, _, _)
RECURSIVE deserialize_any(_, _, _)
RECURSIVE next_element_seed(_, _, _, _)
RECURSIVE next_value_seed(_, _, _)

BracketOpen == <<ChLBracket>>
BracketClose == <<ChRBracket>>
CurlyOpen == <<ChLCurly>>
CurlyClose == <<ChRCurly>>
Comma == <<ChComma>>
Colon == <<ChColon>>

(* what an accessor hands the visitor for what the seed decoded *)
Pulled(d) == IF d.ok THEN PullSome(d.val, d.cur, FALSE) ELSE PullErr(d.err, d.cur, FALSE)

(* SeqAccess::next_element_seed, after the comma: the seed decodes *)
ElementAfter(ty, inp, sep) ==
    IF ~sep.res.ok THEN PullErr(sep.res.err, sep.cur, FALSE)
    ELSE Pulled(Deserialize(ty, inp, sep.cur))

(* a pull that looks for the closing bracket only after an element *)
ElementAtAfterFirst(ty, inp, i, first, pk) ==
    IF ~pk.ok THEN PullErr(pk.err, i, first)
    ELSE IF ~first /\ checkOp(pk.tok, BracketClose) THEN PullNone(TokNext(inp, i).cur, first)
    ELSE ElementAfter(ty, inp, IF first THEN Step(OkUnit, i) ELSE TokExpect(inp, i, Comma))

(* a pull that reports the end at ']' and leaves the bracket in place *)
ElementAtLeavingBracket(ty, inp, i, first, pk) ==
    IF ~pk.ok THEN PullErr(pk.err, i, first)
    ELSE IF checkOp(pk.tok, BracketClose) THEN PullNone(i, first)
    ELSE ElementAfter(ty, inp, IF first THEN Step(OkUnit, i) ELSE TokExpect(inp, i, Comma))

(* SeqAccess::next_element_seed, after the peek: pk is the token peeked *)
ElementAt(ty, inp, i, first, pk) ==
    IF ~pk.ok THEN PullErr(pk.err, i, first)
    ELSE IF checkOp(pk.tok, BracketClose) THEN PullNone(TokNext(inp, i).cur, first)
    ELSE ElementAfter(ty, inp, IF first THEN Step(OkUnit, i) ELSE TokExpect(inp, i, Comma))

(* SeqAccess::next_element_seed *)
next_element_seed(ty, inp, i, first) == ElementAt(ty, inp, i, first, TokPeek(inp, i).res)

(* MapAccess::next_key_seed, after the comma: the seed decodes from MapKey *)
KeyAfter(kty, inp, sep) ==
    IF ~sep.res.ok THEN PullErr(sep.res.err, sep.cur, FALSE)
    ELSE Pulled(MapKey_deserialize(kty, inp, sep.cur))

(* MapAccess::next_key_seed, after the peek: pk is the token peeked *)
KeyAt(kty, inp, i, first, pk) ==
    IF ~pk.ok THEN PullErr(pk.err, i, first)
    ELSE IF checkOp(pk.tok, CurlyClose) THEN PullNone(TokNext(inp, i).cur, first)
    ELSE KeyAfter(kty, inp, IF first THEN Step(OkUnit, i) ELSE TokExpect(inp, i, Comma))

(* MapAccess::next_key_seed: the visit made on the visitor of the key *)
next_key_seed(kty, inp, i, first) == KeyAt(kty, inp, i, first, TokPeek(inp, i).res)

(* a value decoded whether or not the colon was there *)
ValueAfterAnyToken(ty, inp, sep) == Deserialize(ty, inp, sep.cur)

(* MapAccess::next_value_seed, after the colon: the seed decodes *)
ValueAfter(ty, inp, sep) ==
    IF ~sep.res.ok THEN DeErr(sep.res.err, sep.cur)
    ELSE Deserialize(ty, inp, sep.cur)

(* MapAccess::next_value_seed *)
next_value_seed(ty, inp, i) == ValueAfter(ty, inp, TokExpect(inp, i, Colon))

(* a visitor's visit_seq that takes elements of one type until the end;    *)
(* r is what the accessor handed over last                                 *)
RECURSIVE SeqLoop(_, _, _, _)
SeqLoop(ty, inp, r, items) ==
    IF ~r.ok THEN DeErr(r.err, r.cur)
    ELSE IF ~r.some THEN DeOk(items, r.cur)
    ELSE SeqLoop(ty, inp, next_element_seed(ty, inp, r.cur, r.first), Append(items, r.val))

(* a visitor's visit_seq that takes one element of each type of `tys`      *)
(* and asks for no more (a tuple; a struct in its positional form)         *)
RECURSIVE TupleLoop(_, _, _, _)
TupleLoop(tys, inp, r, items) ==
    IF ~r.ok THEN DeErr(r.err, r.cur)
    ELSE IF ~r.some THEN DeErr(EMessage("invalid length"), r.cur)
    ELSE IF Len(tys) = 1 THEN DeOk(Append(items, r.val), r.cur)
    ELSE TupleLoop(Tail(tys), inp, next_element_seed(tys[2], inp, r.cur, r.first),
                   Append(items, r.val))

(* a visitor's visit_map that takes the entries until the end: r is the    *)
(* key the accessor handed over last, v the value                          *)
RECURSIVE MapLoop(_, _, _, _, _)
MapEntry(kty, vty, inp, r, key, v, entries) ==
    IF ~v.ok THEN v
    ELSE MapLoop(kty, vty, inp, next_key_seed(kty, inp, v.cur, r.first),
                 Append(entries, <<key.val, v.val>>))

MapKeyed(kty, vty, inp, r, key, entries) ==
    IF ~key.ok THEN key
    ELSE MapEntry(kty, vty, inp, r, key, next_value_seed(vty, inp, r.cur), entries)

MapLoop(kty, vty, inp, r, entries) ==
    IF ~r.ok THEN DeErr(r.err, r.cur)
    ELSE IF ~r.some THEN DeOk(entries, r.cur)
    ELSE MapKeyed(kty, vty, inp, r, KeyVisitor(kty, DeOk(r.val, r.cur)), entries)

(* the visit_map of a derived struct: a key is a field identifier, an      *)
(* unknown field's value is ignored, a field may come once, and every      *)
(* field must have come at the end                                         *)
HasField(seen, n) == \E k \in 1..Len(seen) : seen[k][1] = n
FieldOf(seen, n) == seen[CHOOSE m \in 1..Len(seen) : seen[m][1] = n][2]

RECURSIVE StructLoop(_, _, _, _)
StructField(fields, inp, r, f, v, seen) ==
    IF ~v.ok THEN v
    ELSE StructLoop(fields, inp, next_key_seed("String", inp, v.cur, r.first),
                    IF f = 0 THEN seen ELSE Append(seen, <<fields[f][1], v.val>>))

StructNamed(fields, inp, r, f, seen) ==
    IF f # 0 /\ HasField(seen, fields[f][1]) THEN DeErr(EMessage("duplicate field"), r.cur)
    ELSE StructField(fields, inp, r, f,
                     next_value_seed(IF f = 0 THEN TValue ELSE fields[f][2], inp, r.cur),
                     seen)

StructLoop(fields, inp, r, seen) ==
    IF ~r.ok THEN DeErr(r.err, r.cur)
    ELSE IF ~r.some
         THEN IF \A k \in 1..Len(fields) : HasField(seen, fields[k][1])
              THEN DeOk([k \in 1..Len(fields) |->
                            <<fields[k][1], FieldOf(seen, fields[k][1])>>], r.cur)
              ELSE DeErr(EMessage("missing field"), r.cur)
    ELSE StructNamed(fields, inp, r, IndexOf(FieldNames(fields), r.val.arg), seen)

(* the value a visitor makes of what its loop gathered *)
Built(ty, r) ==
    IF ~r.ok THEN r
    ELSE CASE ty.t \in {"Value", "Tuple"} /\ ty.into = "seq" -> DeOk(VSeq(r.val), r.cur)
           [] ty.t \in {"Value", "Map"} -> DeOk(VMap(r.val), r.cur)
           [] ty.t = "Struct" /\ ty.into = "seq" ->
                  DeOk(VStruct(ty.name, [k \in 1..Len(r.val) |->
                                            <<ty.fields[k][1], r.val[k]>>]), r.cur)
           [] ty.t = "Struct" -> DeOk(VStruct(ty.name, r.val), r.cur)

Into(ty, what) == [t |-> ty.t, into |-> what] @@ ty

(* the types of the elements a tuple or positional struct visitor takes *)
ElementTypes(ty) ==
    IF ty.t = "Tuple" THEN ty.items ELSE [k \in 1..Len(ty.fields) |-> ty.fields[k][2]]

(* the visitor's visit_seq, called with SeqAccess::new(de): first = true *)
visit_seq(ty, inp, i) ==
    CASE ty.t = "Value" ->
             Built(Into(ty, "seq"),
                   SeqLoop(TValue, inp, next_element_seed(TValue, inp, i, TRUE), <<>>))
      [] ty.t \in {"Tuple", "Struct"} /\ ElementTypes(ty) # <<>> ->
             Built(Into(ty, "seq"),
                   TupleLoop(ElementTypes(ty), inp,
                             next_element_seed(ElementTypes(ty)[1], inp, i, TRUE), <<>>))
      [] ty.t \in {"Tuple", "Struct"} -> Built(Into(ty, "seq"), DeOk(<<>>, i))
      [] OTHER -> DeErr(InvalidType, i)

(* the visitor's visit_map, called with MapAccess::new(de): first = true *)
visit_map(ty, inp, i) ==
    CASE ty.t \in {"Value", "Map"} ->
             Built(Into(ty, "map"),
                   MapLoop(IF ty.t = "Map" THEN ty.key ELSE "String",
                           IF ty.t = "Map" THEN ty.val ELSE TValue, inp,
                           next_key_seed(IF ty.t = "Map" THEN ty.key ELSE "String",
                                         inp, i, TRUE), <<>>))
      [] ty.t = "Struct" ->
             Built(Into(ty, "map"),
                   StructLoop(ty.fields, inp, next_key_seed("String", inp, i, TRUE), <<>>))
      [] OTHER -> DeErr(InvalidType, i)

(* the value of a scalar token *)
Scalar(tok) ==
    CASE tok.kind = "Bool" -> VBool(tok.val)
      [] tok.kind = "Null" -> VNull
      [] tok.kind = "Number" /\ tok.num.t = "I64" -> VInt(tok.num.neg, tok.num.digits)
      [] tok.kind = "Number" -> VFloat(tok.num.val)
      [] tok.kind = "String" -> VStr(tok.str)

(* a dispatch that takes an operator for a null *)
AnyOfOperatorAsUnit(ty, inp, n) ==
    IF ~n.res.ok THEN DeErr(n.res.err, n.cur)
    ELSE IF n.res.tok.kind \in {"Bool", "Null", "Number", "String"}
         THEN VisitScalar(ty, Scalar(n.res.tok), n.cur)
    ELSE IF n.res.tok.kind = "Operator" THEN VisitScalar(ty, VNull, n.cur)
    ELSE IF checkOp(n.res.tok, BracketOpen) THEN visit_seq(ty, inp, n.cur)
    ELSE IF checkOp(n.res.tok, CurlyOpen) THEN visit_map(ty, inp, n.cur)
    ELSE DeErr(EInvalidNumber("abc"), n.cur)

(* Deserializer::deserialize_any, the match on the token n that next() gave *)
AnyOf(ty, inp, n) ==
    IF ~n.res.ok THEN DeErr(n.res.err, n.cur)
    ELSE IF n.res.tok.kind \in {"Bool", "Null", "Number", "String"}
         THEN VisitScalar(ty, Scalar(n.res.tok), n.cur)
    ELSE IF checkOp(n.res.tok, BracketOpen) THEN visit_seq(ty, inp, n.cur)
    ELSE IF checkOp(n.res.tok, CurlyOpen) THEN visit_map(ty, inp, n.cur)
    ELSE DeErr(EInvalidNumber("abc"), n.cur)

(* Deserializer::deserialize_any, and with it every method that            *)
(* forward_to_deserialize_any! sends there                                 *)
deserialize_any(ty, inp, i) == AnyOf(ty, inp, TokNext(inp, i))

(* Deserializer::deserialize_struct, after the peek *)
StructAt(ty, inp, i, pk) ==
    IF ~pk.ok THEN DeErr(pk.err, i)
    ELSE IF checkOp(pk.tok, CurlyOpen) \/ checkOp(pk.tok, BracketOpen)
         THEN deserialize_any(ty, inp, i)
         ELSE DeErr(EInvalidStructString, i)

(* a deserialize_struct that takes the token with next() *)
deserialize_structTaking(ty, inp, i) ==
    StructAt(ty, inp, TokNext(inp, i).cur, TokNext(inp, i).res)

(* Deserializer::deserialize_struct *)
deserialize_struct(ty, inp, i) == StructAt(ty, inp, i, TokPeek(inp, i).res)

(* VariantAccess::variant_seed, the expect(":") after the seed decoded val *)
VariantColon(val, sep) ==
    IF ~sep.res.ok THEN DeErr(sep.res.err, sep.cur)
    ELSE DeOk(val.val, sep.cur)

VariantNamed(inp, val) ==
    IF ~val.ok THEN val
    ELSE VariantColon(val, TokExpect(inp, val.cur, Colon))

(* VariantAccess::variant_seed: the seed of the variant identifier         *)
(* decodes, then a colon; gives the index of the variant named, 0 for none *)
variant_seed(variants, inp, i) ==
    VariantNamed(inp, Deserialize(TIdent(VariantNames(variants)), inp, i))

(* VariantAccess::unit_variant *)
unit_variant(inp, i) == Deserialize(TUnit, inp, i)

(* VariantAccess::newtype_variant_seed *)
newtype_variant_seed(ty, inp, i) == Deserialize(ty, inp, i)

(* VariantAccess::tuple_variant: Deserializer::deserialize_seq, which      *)
(* forward_to_deserialize_any! sends to deserialize_any                    *)
tuple_variant(tys, inp, i) == Deserialize(TTuple(tys), inp, i)

(* VariantAccess::struct_variant: Deserializer::deserialize_struct *)
struct_variant(fields, inp, i) == Deserialize(TStruct(<<>>, fields), inp, i)

(* the value of a variant v of the enum ty with the content r *)
VariantBuilt(ty, v, r) ==
    IF ~r.ok THEN r
    ELSE CASE v.shape = "unit" -> DeOk(VUnitVariant(ty.name, v.name), r.cur)
           [] v.shape = "newtype" -> DeOk(VNewtypeVariant(ty.name, v.name, r.val), r.cur)
           [] v.shape = "tuple" ->
                  DeOk(VTupleVariant(ty.name, v.name, r.val.items), r.cur)
           [] v.shape = "struct" ->
                  DeOk(VStructVariant(ty.name, v.name, r.val.fields), r.cur)

(* the content of the variant v, by the method of VariantAccess that the   *)
(* visitor of the enum calls for its shape                                 *)
VariantContent(v, inp, i) ==
    CASE v.shape = "unit" -> unit_variant(inp, i)
      [] v.shape = "newtype" -> newtype_variant_seed(v.ty, inp, i)
      [] v.shape = "tuple" -> tuple_variant(v.items, inp, i)
      [] v.shape = "struct" -> struct_variant(v.fields, inp, i)

VariantOf(ty, inp, tag) ==
    IF ~tag.ok THEN tag
    ELSE IF tag.val = 0 THEN DeErr(EMessage("unknown variant"), tag.cur)
    ELSE VariantBuilt(ty, ty.variants[tag.val],
                      VariantContent(ty.variants[tag.val], inp, tag.cur))

(* the visit_enum of a derived enum, called with VariantAccess::new(de) *)
visit_enum(ty, inp, i) == VariantOf(ty, inp, variant_seed(ty.variants, inp, i))

(* Deserializer::deserialize_enum, after next() gave the token n *)
EnumAt(ty, inp, n) ==
    IF ~n.res.ok THEN DeErr(n.res.err, n.cur)
    ELSE IF checkOp(n.res.tok, CurlyOpen) THEN visit_enum(ty, inp, n.cur)
    ELSE DeErr(EInvalidEnumString, n.cur)

(* Deserializer::deserialize_enum *)
deserialize_enum(ty, inp, i) == EnumAt(ty, inp, TokNext(inp, i))

(* T::deserialize(&mut deserializer): the method the type calls *)
Deserialize(ty, inp, i) ==
    CASE ty.t = "Struct" -> deserialize_struct(ty, inp, i)
      [] ty.t = "Enum" -> deserialize_enum(ty, inp, i)
      [] OTHER -> deserialize_any(ty, inp, i)

(* a from_str that asks for the end of the input behind the value *)
from_strToTheEnd(ty, inp) ==
    LET got(r) ==
            IF r.ok /\ ~(TokNext(inp, r.cur).res.ok /\ TokNext(inp, r.cur).res.tok.kind = "EOF")
            THEN DeErr(EMessage("trailing characters"), TokNext(inp, r.cur).cur)
            ELSE r
    IN  got(Deserialize(ty, inp, TokNew(inp)))

(* de.rs: from_str *)
from_str(ty, inp) == Deserialize(ty, inp, TokNew(inp))


(***************************************************************************)
(* The decoder at work.  from_str decodes the whole text for a binding.    *)
(* deserialize_any, on an opening bracket, hands the visitor an accessor,  *)
(* and the visitor pulls from it: elements from a SeqAccess; from a        *)
(* MapAccess a key, then its value, then the next key.  A pull that ends   *)
(* the collection or fails is the last one.  Elements and values are       *)
(* pulled for any of PullBindings, keys for any of KeyTypes.               *)
(***************************************************************************)
OpFromStr(ty) == [name |-> "from_str", ty |-> ty]
OpDeserializeAny == [name |-> "deserialize_any"]
OpNextElement(ty) == [name |-> "next_element_seed", ty |-> ty]
OpNextKey(kty) == [name |-> "next_key_seed", key |-> kty]
OpNextValue(ty) == [name |-> "next_value_seed", ty |-> ty]

SeqAccess(first) == [kind |-> "seq", first |-> first]
MapAccess(first, awaits) == [kind |-> "map", first |-> first, awaits |-> awaits]

KeyTypes == {"String", "i8", "u8", "i64"}
StructA == TStruct(<<ChLowerS>>, << <<<<ChLowerA>>, TValue>> >>)
EnumX == TEnum(<<ChUpperE>>, <<NewtypeShape(<<ChLowerX>>, TValue)>>)
EnumA == TEnum(<<ChUpperE>>, <<UnitShape(<<ChUpperA>>)>>)
PullBindings == {TValue, EnumA}
DeBindings == {TValue, StructA, EnumX} \cup {TMap(kty, TValue) : kty \in KeyTypes}

Returned(o, r, i, a) ==
    /\ op' = o
    /\ res' = r
    /\ cur' = i
    /\ before' = cur
    /\ access' = a
    /\ peeked' = NoPeek
    /\ UNCHANGED <<input, given, twin, ser>>

(* what a decoding returned, without the place the decoder stopped at *)
Outcome(r) == IF r.ok THEN [ok |-> TRUE, val |-> r.val] ELSE Err(r.err)

DoFromStr ==
    \E ty \in DeBindings :
        /\ op = OpNew
        /\ LET got(r) == Returned(OpFromStr(ty), Outcome(r), r.cur, NoAccess)
           IN  got(from_str(ty, input))

DoDeserializeAny ==
    /\ op = OpNew
    /\ LET got(n) ==
               /\ n.res.ok
               /\ checkOp(n.res.tok, BracketOpen) \/ checkOp(n.res.tok, CurlyOpen)
               /\ Returned(OpDeserializeAny, n.res, n.cur,
                           IF checkOp(n.res.tok, BracketOpen) THEN SeqAccess(TRUE)
                           ELSE MapAccess(TRUE, "key"))
       IN  got(TokNext(input, cur))

DoNextElement ==
    \E ty \in PullBindings :
        /\ access.kind = "seq"
        /\ LET got(r) == Returned(OpNextElement(ty), r, r.cur,
                                  IF r.ok /\ r.some THEN SeqAccess(r.first) ELSE NoAccess)
           IN  got(next_element_seed(ty, input, cur, access.first))

DoNextKey ==
    \E kty \in KeyTypes :
        /\ access.kind = "map"
        /\ access.awaits = "key"
        /\ LET got(r) == Returned(OpNextKey(kty), r, r.cur,
                                  IF r.ok /\ r.some THEN MapAccess(r.first, "value")
                                  ELSE NoAccess)
           IN  got(next_key_seed(kty, input, cur, access.first))

DoNextValue ==
    \E ty \in PullBindings :
        /\ access.kind = "map"
        /\ access.awaits = "value"
        /\ LET got(r) == Returned(OpNextValue(ty), r, r.cur,
                                  IF r.ok THEN MapAccess(access.first, "key") ELSE NoAccess)
           IN  got(next_value_seed(ty, input, cur))

NextDe ==
    \/ DoFromStr
    \/ DoDeserializeAny
    \/ DoNextElement
    \/ DoNextKey
    \/ DoNextValue

(***************************************************************************)
(* Texts to decode: an opening bracket and at most MaxDePieces pieces.     *)
(***************************************************************************)
MaxDePieces == 3
Ch5 == 53

DePieces ==
    { CurlyOpen, CurlyClose, BracketOpen, BracketClose, Comma, Colon, <<Ch1>>,
      <<ChQuote, ChLowerX, ChQuote>>,
      <<ChQuote, Ch1, Ch2, ChQuote>>,
      <<ChQuote, Ch3, Ch0, Ch0, ChQuote>>,
      <<ChQuote, ChMinus, Ch5, ChQuote>>,
      <<ChQuote, ChLowerA, ChQuote, ChColon, Ch1>> }

DeInputs == {open \o body : open \in {CurlyOpen, BracketOpen},
                            body \in TextsOf(DePieces, MaxDePieces)}

SpecDe == InitTok(DeInputs) /\ [][NextDe]_vars

(***************************************************************************)
(* Texts of any first token: at most MaxShapePieces pieces, among them     *)
(* scalars, closers, operators, whitespace and the empty text.             *)
(***************************************************************************)
MaxShapePieces == 2

ShapePieces ==
    DePieces \cup {<<ChLowerN, ChLowerU, ChLowerL, ChLowerL>>, <<ChSpace>>, <<ChLowerX>>}

ShapeInputs == TextsOf(ShapePieces, MaxShapePieces)

SpecShape == InitTok(ShapeInputs) /\ [][NextDe]_vars

(***************************************************************************)
(* The accessors alone: deserialize_any hands one out and the visitor      *)
(* pulls from it.                                                          *)
(***************************************************************************)
NextPull ==
    \/ DoDeserializeAny
    \/ DoNextElement
    \/ DoNextKey
    \/ DoNextValue

(***************************************************************************)
(* Collections of enum values: an opening bracket and at most              *)
(* MaxEnumPieces pieces, among them [{"A":null},{"A":null}] and            *)
(* {"k":{"A":null},"k":{"A":null}}.                                        *)
(***************************************************************************)
MaxEnumPieces == 4

EnumAText ==
    <<ChLCurly, ChQuote, ChUpperA, ChQuote, ChColon, ChLowerN, ChLowerU, ChLowerL, ChLowerL,
      ChRCurly>>
EntryAText == <<ChQuote, ChLowerK, ChQuote, ChColon>> \o EnumAText

EnumPieces == {EnumAText, EntryAText, Comma, BracketClose, CurlyClose, <<Ch1>>}

EnumInputs == {open \o body : open \in {CurlyOpen, BracketOpen},
                              body \in TextsOf(EnumPieces, MaxEnumPieces)}

SpecEnumIn == InitTok(EnumInputs) /\ [][NextPull]_vars

(***************************************************************************)
(* Enum values alone, decoded by from_str with the binding of an enum      *)
(* that has a variant of each kind: a unit variant A, a newtype variant U  *)
(* of any value, a tuple variant F of two values and a struct variant E    *)
(* with the field a.  The texts are at most MaxVariantPieces pieces,       *)
(* among them {"A":null}, {"U":1}, {"U":[1]}, {"F":[1,1]} and              *)
(* {"E":{"a":1}}.                                                          *)
(***************************************************************************)
MaxVariantPieces == 3

EnumAll ==
    TEnum(<<ChUpperE>>,
          << UnitShape(<<ChUpperA>>),
             NewtypeShape(<<ChUpperU>>, TValue),
             TupleShape(<<ChUpperF>>, <<TValue, TValue>>),
             StructShape(<<ChUpperE>>, << <<<<ChLowerA>>, TValue>> >>) >>)

VariantHead(variant) == CurlyOpen \o <<ChQuote>> \o variant \o <<ChQuote>> \o Colon

HeadUnit == VariantHead(<<ChUpperA>>) \o <<ChLowerN, ChLowerU, ChLowerL, ChLowerL>>
HeadNewtype == VariantHead(<<ChUpperU>>) \o <<Ch1>>
HeadNewtypeSeq == VariantHead(<<ChUpperU>>) \o BracketOpen \o <<Ch1>> \o BracketClose
HeadTuple ==
    VariantHead(<<ChUpperF>>) \o BracketOpen \o <<Ch1>> \o Comma \o <<Ch1>> \o BracketClose
HeadStruct ==
    VariantHead(<<ChUpperE>>) \o CurlyOpen \o <<ChQuote, ChLowerA, ChQuote>> \o Colon
        \o <<Ch1>> \o CurlyClose

VariantHeads == {HeadUnit, HeadNewtype, HeadNewtypeSeq, HeadTuple, HeadStruct}

VariantPieces == VariantHeads \cup {CurlyClose, BracketClose, Comma}

VariantInputs == TextsOf(VariantPieces, MaxVariantPieces)

EnumBindings == {EnumAll, EnumA, EnumX}

DoFromStrEnum ==
    \E ty \in EnumBindings :
        /\ op = OpNew
        /\ LET got(r) == Returned(OpFromStr(ty), Outcome(r), r.cur, NoAccess)
           IN  got(from_str(ty, input))

SpecVariant == InitTok(VariantInputs) /\ [][DoFromStrEnum]_vars

(***************************************************************************)
(* Arrays alone: '[' and at most MaxSeqPieces pieces, among them [1, 2],   *)
(* ["k",1] and [1 2].  from_str decodes the whole text; deserialize_any    *)
(* hands out the sequence accessor and the visitor pulls from it.          *)
(***************************************************************************)
MaxSeqPieces == 4

TextOne == <<Ch1>>
TextTwo == <<ChSpace, Ch2>>
TextK == <<ChQuote, ChLowerK, ChQuote>>

SeqPieces == {TextOne, TextTwo, TextK, Comma, BracketClose}

SeqInputs == {BracketOpen \o body : body \in TextsOf(SeqPieces, MaxSeqPieces)}

NextSeq ==
    \/ DoFromStr
    \/ DoDeserializeAny
    \/ DoNextElement

SpecSeqIn == InitTok(SeqInputs) /\ [][NextSeq]_vars

(***************************************************************************)
(* Objects alone: '{' and at most MaxMapPieces pieces, among them          *)
(* {"k":1,"j": 2} and {"k" 2}.                                             *)
(***************************************************************************)
MaxMapPieces == 4

ChLowerJ == 106
TextJ == <<ChQuote, ChLowerJ, ChQuote>>
EntryK1 == TextK \o Colon \o TextOne
EntryJ2 == TextJ \o Colon \o TextTwo

MapPieces == {EntryK1, EntryJ2, TextK, TextTwo, Comma, CurlyClose}

MapInputs == {CurlyOpen \o body : body \in TextsOf(MapPieces, MaxMapPieces)}

NextMap ==
    \/ DoFromStr
    \/ DoDeserializeAny
    \/ DoNextKey
    \/ DoNextValue

SpecMapIn == InitTok(MapInputs) /\ [][NextMap]_vars

(***************************************************************************)
(* Texts with brackets and operators where a value should stand: at most   *)
(* MaxStrayPieces pieces, among them the empty text, [,1] and [1,].        *)
(***************************************************************************)
MaxStrayPieces == 4

TextA1 == <<ChQuote, ChLowerA, ChQuote>>

StrayPieces ==
    {BracketOpen, BracketClose, CurlyOpen, CurlyClose, Comma, Colon, TextOne, TextA1}

StrayInputs == TextsOf(StrayPieces, MaxStrayPieces)

SpecStray == InitTok(StrayInputs) /\ [][NextDe]_vars

(***************************************************************************)
(* A complete value and what follows it: the text of a value and at most   *)
(* MaxTailPieces pieces behind it, among them "1 2", "true]" and           *)
(* "null x".                                                               *)
(***************************************************************************)
MaxTailPieces == 2

Firsts ==
    { [text |-> TextOne, val |-> VInt(FALSE, <<1>>)],
      [text |-> StrTrue, val |-> VBool(TRUE)],
      [text |-> StrNull, val |-> VNull],
      [text |-> TextK, val |-> VStr(<<ChLowerK>>)],
      [text |-> BracketOpen \o BracketClose, val |-> VSeq(<<>>)],
      [text |-> BracketOpen \o TextOne \o BracketClose, val |-> VSeq(<<VInt(FALSE, <<1>>)>>)],
      [text |-> CurlyOpen \o EntryK1 \o CurlyClose,
       val |-> VMap(<< <<VStr(<<ChLowerK>>), VInt(FALSE, <<1>>)>> >>)] }

TailPieces ==
    {TextTwo, <<ChSpace, ChLowerX>>, BracketClose, CurlyClose, Comma, <<ChQuote>>}

TailInputs == {f.text \o tail : f \in Firsts, tail \in TextsOf(TailPieces, MaxTailPieces)}

SpecTail == InitTok(TailInputs) /\ [][NextDe]_vars

(***************************************************************************)
(* The encoder at work, and the decoder on what it wrote.  The value       *)
(* `given` is encoded by to_string; from_str then decodes the text for     *)
(* the binding that agrees with the value on structure.                    *)
(***************************************************************************)
OpToString == [name |-> "to_string"]

RECURSIVE BindingOf(_)
MemberBindings(members) == [k \in 1..Len(members) |-> BindingOf(members[k])]
FieldBindings(fields) ==
    [k \in 1..Len(fields) |-> <<fields[k][1], BindingOf(fields[k][2])>>]

BindingOf(v) ==
    CASE v.k = "struct" -> TStruct(v.name, FieldBindings(v.fields))
      [] v.k = "unit_variant" -> TEnum(v.name, <<UnitShape(v.variant)>>)
      [] v.k = "newtype_variant" ->
             TEnum(v.name, <<NewtypeShape(v.variant, BindingOf(v.payload))>>)
      [] v.k = "tuple_variant" ->
             TEnum(v.name, <<TupleShape(v.variant, MemberBindings(v.items))>>)
      [] v.k = "struct_variant" ->
             TEnum(v.name, <<StructShape(v.variant, FieldBindings(v.fields))>>)
      [] OTHER -> TValue

InitCodec(values) ==
    /\ given \in values
    /\ input = <<>>
    /\ cur = 1
    /\ op = OpNew
    /\ res = OkUnit
    /\ before = 1
    /\ peeked = NoPeek
    /\ access = NoAccess
    /\ twin = NoTwin
    /\ ser = NoSer

DoToString ==
    /\ op = OpNew
    /\ given # NoValue
    /\ input' = to_string(given)
    /\ res' = [ok |-> TRUE, val |-> input']
    /\ op' = OpToString
    /\ UNCHANGED <<cur, before, peeked, access, given, twin, ser>>

DoDecode ==
    /\ op = OpToString
    /\ Returned(OpFromStr(BindingOf(given)), Outcome(from_str(BindingOf(given), input)),
                from_str(BindingOf(given), input).cur, NoAccess)

NextCodec ==
    \/ DoToString
    \/ DoDecode

(***************************************************************************)
(* Values to encode: scalars; sequences and string-keyed maps of at most   *)
(* MaxItems scalars, a map having each key once; a few of these nested;    *)
(* and enum values of each kind of variant.                                *)
(***************************************************************************)
MaxItems == 2

NameE == <<ChUpperE>>
NameS == <<ChLowerS>>
NameTest == <<84, ChLowerE, ChLowerS, ChLowerT>>
NameU == <<ChUpperU>>
NameV == <<86>>
NameAge == <<ChLowerA, 103, ChLowerE>>
TextA == <<ChLowerA>>
TextB == <<ChLowerB>>

Texts == {<<>>, TextA, <<ChEAcute>>, <<ChQuote>>, <<ChBackslash>>}
KeyTexts == {TextA, TextB, <<ChLowerA, ChQuote>>}

Scalars ==
    {VNull, VBool(TRUE), VBool(FALSE), VInt(FALSE, <<>>), VInt(TRUE, <<4, 2>>),
     VInt(FALSE, I64Max), VInt(TRUE, I64MinMag)} \cup {VStr(t) : t \in Texts}

EachOnce(entries) ==
    \A a, b \in 1..Len(entries) : entries[a][1] = entries[b][1] => a = b

SeqValues(members, n) == {VSeq(q) : q \in SeqsUpTo(members, n)}
MapValues(members, n) ==
    {VMap(q) : q \in {e \in SeqsUpTo({<<VStr(t), m>> : t \in KeyTexts, m \in members}, n) :
                        EachOnce(e)}}

Containers == SeqValues(Scalars, 1) \cup MapValues({VInt(FALSE, <<1>>)}, 1)
Nested ==
    {VSeq(<<x, y>>) : x \in Containers, y \in Containers}
        \cup {VMap(<< <<VStr(TextA), x>> >>) : x \in Containers}

PlainValues ==
    Scalars \cup SeqValues(Scalars, MaxItems) \cup MapValues(Scalars, MaxItems) \cup Nested

StructAge == VStruct(NameS, << <<NameAge, VInt(FALSE, <<1>>)>> >>)

FieldLists(n) ==
    {e \in SeqsUpTo({<<t, m>> : t \in {TextA, TextB}, m \in Scalars}, n) : EachOnce(e)}

EnumValues ==
    {VNewtypeVariant(e, NameTest, p) : e \in {NameE, NameTest},
                                       p \in Scalars \cup Containers \cup {StructAge}}
        \cup {VTupleVariant(NameE, NameV, q) : q \in SeqsUpTo(Scalars, MaxItems)}
        \cup {VStructVariant(NameE, NameV, f) : f \in FieldLists(MaxItems)}
        \cup {VUnitVariant(NameE, NameU), VUnitVariant(NameE, NameTest)}

Values == PlainValues \cup EnumValues

SpecCodec == InitCodec(Values) /\ [][NextCodec]_vars

(***************************************************************************)
(* Unsigned 64-bit values to encode: those up to MaxDelta from 0, from     *)
(* either side of 2^63 and from 2^64 - 1.                                  *)
(***************************************************************************)
MaxDelta == 12

U64Inputs ==
    UNION { { VU64(NatMag(d)), VU64(MagSub(I64Max, NatMag(d))),
              VU64(MagAdd(I64MinMag, NatMag(d))), VU64(MagSub(U64Max, NatMag(d))) }
            : d \in 0..MaxDelta }

SpecU64 == InitCodec(U64Inputs) /\ [][DoToString]_vars

(***************************************************************************)
(* A text and the same text behind a prefix, read side by side: `twin` is  *)
(* the prefix, and the cursor and the last result of the tokenizer (or     *)
(* decoder) over prefix \o input.  Each operation is called on both.       *)
(***************************************************************************)
Twin(prefix, i, r) == [prefix |-> prefix, cur |-> i, res |-> r]

InitPre(inputs, prefixes) ==
    /\ input \in inputs
    /\ twin \in {Twin(p, TokNew(p \o input), OkUnit) : p \in prefixes}
    /\ cur = TokNew(input)
    /\ op = OpNew
    /\ res = OkUnit
    /\ before = 1
    /\ peeked = NoPeek
    /\ access = NoAccess
    /\ given = NoValue
    /\ ser = NoSer

ReturnedBoth(o, r, i, t) ==
    /\ op' = o
    /\ res' = r
    /\ cur' = i
    /\ before' = cur
    /\ twin' = t
    /\ UNCHANGED <<input, peeked, access, given, ser>>

DoNextBoth ==
    /\ twin # NoTwin
    /\ op.name \in {"new", "next"}
    /\ LET got(a, b) == ReturnedBoth(OpNext, a.res, a.cur, Twin(twin.prefix, b.cur, b.res))
       IN  got(TokNext(input, cur), TokNext(twin.prefix \o input, twin.cur))

DoFromStrBoth ==
    /\ twin # NoTwin
    /\ op = OpNew
    /\ LET got(a, b) == ReturnedBoth(OpFromStr(TValue), Outcome(a), a.cur,
                                     Twin(twin.prefix, b.cur, Outcome(b)))
       IN  got(from_str(TValue, input), from_str(TValue, twin.prefix \o input))

NextPre ==
    \/ DoNextBoth
    \/ DoFromStrBoth

(***************************************************************************)
(* Texts of at most MaxPrePieces pieces, among them [1,"e-acute"], and     *)
(* the prefixes: one or two whitespace characters, or one byte-order mark. *)
(***************************************************************************)
MaxPrePieces == 3

PrePieces ==
    { <<ChLBracket, Ch1, ChComma>>, <<ChQuote, ChEAcute, ChQuote>>, <<ChRBracket>>,
      <<Ch1>>, <<ChSpace>>, <<ChBOM>> }

PreInputs == TextsOf(PrePieces, MaxPrePieces)

Blanks == {ChSpace, ChTab, ChCR, ChLF}

Prefixes ==
    {<<a>> : a \in Blanks} \cup {<<a, b>> : a \in Blanks, b \in Blanks} \cup {<<ChBOM>>}

SpecPre == InitPre(PreInputs, Prefixes) /\ [][NextPre]_vars

(***************************************************************************)
(* The decoder and the encoder together: the texts of DeInputs decoded     *)
(* whole or pull by pull, and the values of Values encoded and decoded     *)
(* back.                                                                   *)
(***************************************************************************)
InitDeSer == InitTok(DeInputs) \/ InitCodec(Values)

NextDeSer ==
    \/ NextDe
    \/ NextCodec

SpecDeSer == InitDeSer /\ [][NextDeSer]_vars

(***************************************************************************)
(* The encoder call by call.  A value being serialized calls the encoder:  *)
(* one call for a scalar; for a collection the opening call, then          *)
(* serialize_element (or serialize_key / serialize_field) for each member, *)
(* each followed by the calls of the member itself, then end.  `ser.stack` *)
(* holds a frame for each collection opened and not ended, under the frame *)
(* of to_string: the kind, the members begun, the commas written for them, *)
(* and whether a member or the value of a member is awaited.  `input` is   *)
(* the output buffer.  At most MaxCalls calls are made.                    *)
(***************************************************************************)
MaxCalls == 7

Frame(kind, awaits) == [kind |-> kind, members |-> 0, commas |-> 0, awaits |-> awaits]

Top(stack) == stack[Len(stack)]

Await(stack, what) == [stack EXCEPT ![Len(stack)].awaits = what]

(* the value awaited was written whole *)
Completed(stack) == Await(stack, IF Top(stack).kind = "top" THEN "done" ELSE "member")

Popped(stack) == SubSeq(stack, 1, Len(stack) - 1)

(* a member was begun, after a comma or without one *)
Membered(stack, comma) ==
    [stack EXCEPT ![Len(stack)] = [kind |-> @.kind, members |-> @.members + 1,
                                   commas |-> @.commas + (IF comma THEN 1 ELSE 0),
                                   awaits |-> "value"]]

InitSer ==
    /\ input = <<>>
    /\ ser = [stack |-> <<Frame("top", "value")>>, calls |-> 0]
    /\ cur = 1
    /\ op = OpNew
    /\ res = OkUnit
    /\ before = 1
    /\ peeked = NoPeek
    /\ access = NoAccess
    /\ given = NoValue
    /\ twin = NoTwin

Serializing(what) ==
    /\ ser # NoSer
    /\ ser.calls < MaxCalls
    /\ Top(ser.stack).awaits = what

SerCalled(name, out, stack) ==
    /\ op' = [name |-> name]
    /\ res' = OkUnit
    /\ input' = out
    /\ ser' = [stack |-> stack, calls |-> ser.calls + 1]
    /\ UNCHANGED <<cur, before, peeked, access, given, twin>>

(* the values written by one call *)
LeafMethod(v) ==
    CASE v.k = "null" -> "serialize_unit"
      [] v.k = "bool" -> "serialize_bool"
      [] v.k = "int" -> "serialize_i64"
      [] v.k = "str" -> "serialize_str"
      [] v.k = "unit_variant" -> "serialize_unit_variant"
      [] v.k = "newtype_variant" -> "serialize_newtype_variant"

SerLeaves ==
    {VInt(FALSE, <<1>>), VStr(<<ChLBracket>>), VStr(<<ChLCurly>>),
     VNewtypeVariant(NameE, NameTest, VNull)}

SeqKinds == {"seq", "tuple", "tuple_variant"}
MapKinds == {"map", "struct", "struct_variant"}

(* the call that opens a collection, and the end() of its kind *)
Opened(kind, out) ==
    CASE kind \in {"seq", "tuple"} -> serialize_seq(out)
      [] kind = "tuple_variant" -> serialize_tuple_variant(out, NameE, NameV)
      [] kind \in {"map", "struct"} -> serialize_map(out)
      [] kind = "struct_variant" -> serialize_struct_variant(out, NameE, NameV)

Ended(kind, out) ==
    CASE kind \in {"seq", "tuple"} -> SeqEnd(out)
      [] kind = "tuple_variant" -> TupleVariantEnd(out)
      [] kind \in {"map", "struct"} -> MapEnd(out)
      [] kind = "struct_variant" -> StructVariantEnd(out)
SerKeys == {TextA, <<ChLCurly>>}

DoSerializeLeaf ==
    \E v \in SerLeaves :
        /\ Serializing("value")
        /\ SerCalled(LeafMethod(v), Serialize(v, input), Completed(ser.stack))

DoSerializeSeq ==
    \E kind \in SeqKinds :
        /\ Serializing("value")
        /\ SerCalled("serialize_" \o kind, Opened(kind, input),
                     Append(ser.stack, Frame(kind, "member")))

DoSerializeMap ==
    \E kind \in MapKinds :
        /\ Serializing("value")
        /\ SerCalled("serialize_" \o kind, Opened(kind, input),
                     Append(ser.stack, Frame(kind, "member")))

DoSerializeElement ==
    /\ Serializing("member")
    /\ Top(ser.stack).kind \in SeqKinds
    /\ SerCalled("serialize_element", SeqSeparator(input),
                 Membered(ser.stack, SeqSeparator(input) # input))

DoSerializeKey ==
    \E key \in SerKeys :
        /\ Serializing("member")
        /\ Top(ser.stack).kind \in MapKinds
        /\ SerCalled(IF Top(ser.stack).kind = "map" THEN "serialize_key"
                     ELSE "serialize_field",
                     serialize_str(MapSeparator(input), key) \o <<ChColon>>,
                     Membered(ser.stack, MapSeparator(input) # input))

DoEnd ==
    /\ Serializing("member")
    /\ SerCalled("end", Ended(Top(ser.stack).kind, input), Completed(Popped(ser.stack)))

NextSer ==
    \/ DoSerializeLeaf
    \/ DoSerializeSeq
    \/ DoSerializeMap
    \/ DoSerializeElement
    \/ DoSerializeKey
    \/ DoEnd

SpecSer == InitSer /\ [][NextSer]_vars

(***************************************************************************)
(*                               Claims                                    *)
(***************************************************************************)

(* the index of the first code point at or after i that is no whitespace   *)
(* (Len + 1 when there is none)                                            *)
FirstNonWs(inp, i) ==
    CHOOSE k \in i..(Len(inp) + 1) :
        /\ k = Len(inp) + 1 \/ inp[k] \notin {ChSpace, ChTab, ChCR, ChLF}
        /\ \A m \in i..(k - 1) : inp[m] \in {ChSpace, ChTab, ChCR, ChLF}

(* C1: peek is non-destructive: it leaves the cursor where it was, and a   *)
(* next or a further peek called right after a peek returns exactly what   *)
(* that peek returned (token with payload and span, or error).             *)
C1_PeekNonDestructive ==
    /\ op = OpPeek => cur = before
    /\ (peeked # NoPeek /\ op \in {OpNext, OpPeek}) => res = peeked

(* a next, right after a peek, that consumed an escaped string token *)
C1_Witness ==
    /\ op = OpNext
    /\ peeked # NoPeek
    /\ res.ok
    /\ res.tok.kind = "String"
    /\ res.tok.escaped
    /\ cur > before

(* C2: after a successful next that returns a token other than EOF, the    *)
(* span starts at the first non-whitespace code point at or after the      *)
(* previous cursor, start < end <= len(input), the cursor is at end, and   *)
(* a string token's span runs from its opening quote to just past its      *)
(* closing quote in the original input, escaped or not.                    *)
C2_SpanAndCursor ==
    (op = OpNext /\ res.ok /\ res.tok.kind # "EOF") =>
        LET t == res.tok
            f == FirstNonWs(input, before)
        IN  /\ f <= Len(input)
            /\ t.start = Off(input, f)
            /\ t.start < t.end
            /\ t.end <= ByteLen(input)
            /\ Off(input, cur) = t.end
            /\ t.kind = "String" =>
                  /\ input[f] = ChQuote
                  /\ cur - 1 > f
                  /\ input[cur - 1] = ChQuote

(* a string token with a multi-byte code point, lexed after skipped whitespace *)
C2_Witness ==
    /\ op = OpNext
    /\ res.ok
    /\ res.tok.kind = "String"
    /\ res.tok.str = <<ChEAcute>>
    /\ res.tok.start > Off(input, before)
    /\ res.tok.end = res.tok.start + 4

(* the text of a string literal with every escape sequence replaced by the *)
(* code point it stands for and every other code point kept                *)
SimpleEscape(ch) ==
    CASE ch = ChLowerB -> ChBS
      [] ch = ChLowerF -> ChFF
      [] ch = ChLowerN -> ChLF
      [] ch = ChLowerR -> ChCR
      [] ch = ChLowerT -> ChTab
      [] OTHER -> ch

RECURSIVE Unescaped(_)
Unescaped(body) ==
    IF body = <<>> THEN <<>>
    ELSE IF Head(body) # ChBackslash THEN <<Head(body)>> \o Unescaped(Tail(body))
    ELSE IF body[2] = ChLowerU
         THEN <<from_str_radix16(SubSeq(body, 3, 6))>> \o Unescaped(SubSeq(body, 7, Len(body)))
    ELSE IF body[2] = ChUpperU
         THEN <<from_str_radix16(SubSeq(body, 3, 10))>> \o Unescaped(SubSeq(body, 11, Len(body)))
    ELSE <<SimpleEscape(body[2])>> \o Unescaped(SubSeq(body, 3, Len(body)))

FourEscapes ==
    <<ChQuote, ChBackslash, ChLowerU, Ch0, Ch0, Ch4, Ch1, ChBackslash, ChLowerN,
      ChBackslash, ChLowerT, ChBackslash, ChQuote, ChQuote>>

(* C3: the payload of a string token whose literal holds escape sequences  *)
(* is the literal's text with each escape replaced by its code point and   *)
(* every other code point kept once, in order; "A\n\t\"" gives the    *)
(* four code points A, LF, TAB, quote.                                     *)
C3_EscapeFidelity ==
    (op = OpNext /\ res.ok /\ res.tok.kind = "String" /\ res.tok.escaped) =>
        LET f == FirstNonWs(input, before)
        IN  /\ res.tok.str = Unescaped(SubSeq(input, f + 1, cur - 2))
            /\ SubSeq(input, f, cur - 1) = FourEscapes =>
                  res.tok.str = <<ChUpperA, ChLF, ChTab, ChQuote>>

(* the longest run of number-scan characters that starts at index f *)
InNumberSet(ch) ==
    (ch >= Ch0 /\ ch <= Ch9) \/ ch \in {ChDot, ChLowerE, ChUpperE, ChMinus, ChPlus}

RunEnd(inp, f) ==
    CHOOSE k \in f..Len(inp) :
        /\ \A m \in f..k : InNumberSet(inp[m])
        /\ k = Len(inp) \/ ~InNumberSet(inp[k + 1])

NumberAt(text) == input = text /\ op = OpNext /\ before = 1

IntTok(neg, digits) == [t |-> "I64", neg |-> neg, digits |-> digits]
FloatTok(neg, digits, e) == [t |-> "F64", val |-> [neg |-> neg, digits |-> digits, exp |-> e]]

(* C4: on a first character that is a digit or '-', next consumes the      *)
(* longest run of characters among 0-9 . e E - + as the lexeme; the token  *)
(* is Number(Int) when the whole lexeme parses as an i64, else             *)
(* Number(Float) when it parses as an f64, else the error InvalidNumber    *)
(* with the lexeme.  42 and -0 are the integers 42 and 0; 42.0 and 4.2e1   *)
(* are the float 42; a numeral beyond the i64 range is a float; 1.2.3, -   *)
(* and 1-2 are invalid numbers.                                            *)
C4_NumberClassification ==
    LET f == FirstNonWs(input, before)
    IN  /\ (op = OpNext /\ f <= Len(input)
              /\ ((input[f] >= Ch0 /\ input[f] <= Ch9) \/ input[f] = ChMinus)) =>
            LET k == RunEnd(input, f)
                lexeme == SubSeq(input, f, k)
                span(n) == Ok(TNumber(n, Off(input, f), Off(input, k + 1)))
            IN  /\ cur = k + 1
                /\ res = IF ParseInt(lexeme, "i64").ok
                         THEN span(NumI64(ParseInt(lexeme, "i64").val))
                         ELSE IF ParseF64(lexeme).ok
                              THEN span(NumF64(ParseF64(lexeme).val))
                              ELSE Err(EInvalidNumber(lexeme))
        /\ NumberAt(<<Ch4, Ch2>>) => res.ok /\ res.tok.num = IntTok(FALSE, <<4, 2>>)
        /\ NumberAt(<<ChMinus, Ch0>>) => res.ok /\ res.tok.num = IntTok(FALSE, <<>>)
        /\ NumberAt(<<Ch4, Ch2, ChDot, Ch0>>) =>
              res.ok /\ res.tok.num = FloatTok(FALSE, <<4, 2>>, 0)
        /\ NumberAt(<<Ch4, ChDot, Ch2, ChLowerE, Ch1>>) =>
              res.ok /\ res.tok.num = FloatTok(FALSE, <<4, 2>>, 0)
        /\ NumberAt(Numeral(I64Max)) => res.ok /\ res.tok.num = IntTok(FALSE, I64Max)
        /\ NumberAt(Numeral(I64MinMag)) =>
              res.ok /\ res.tok.num = FloatTok(FALSE, I64MinMag, 0)
        /\ NumberAt(<<ChMinus>> \o Numeral(I64MinMag)) =>
              res.ok /\ res.tok.num = IntTok(TRUE, I64MinMag)
        /\ NumberAt(<<Ch1, ChDot, Ch2, ChDot, Ch3>>) => res = Err(EInvalidNumber(input))
        /\ NumberAt(<<ChMinus>>) => res = Err(EInvalidNumber(input))
        /\ NumberAt(<<Ch1, ChMinus, Ch2>>) => res = Err(EInvalidNumber(input))

(* the numeral one above the largest i64 was lexed: a float, not an error *)
C4_Witness ==
    /\ NumberAt(Numeral(I64MinMag))
    /\ res.ok
    /\ res.tok.kind = "Number"
    /\ res.tok.num.t = "F64"
    /\ cur = Len(input) + 1

(***************************************************************************)
(* C5: for every value built from null, booleans, 64-bit integers,         *)
(* strings, sequences and string-keyed maps, decoding the text written by  *)
(* to_string with from_str succeeds and yields a value equal to the one    *)
(* encoded.                                                                *)
(***************************************************************************)
C5_RoundTrip ==
    (op.name = "from_str" /\ given \in PlainValues) => (res.ok /\ res.val = given)

(***************************************************************************)
(* C6: a newtype variant named Test with payload p is written as           *)
(* {"Test":<encoding of p>}, and decoding what was written as the enum     *)
(* yields the same variant and payload; the payload {"age":1} gives        *)
(* {"Test":{"age":1}}.                                                     *)
(***************************************************************************)
Quoted(name) == <<ChQuote>> \o name \o <<ChQuote>>
SingleEntry(variant, payload) ==
    CurlyOpen \o Quoted(variant) \o Colon \o payload \o CurlyClose
TextAge1 == CurlyOpen \o Quoted(NameAge) \o Colon \o <<Ch1>> \o CurlyClose

C6_NewtypeVariantShape ==
    given.k = "newtype_variant" =>
        /\ op = OpToString =>
               /\ input = SingleEntry(given.variant, to_string(given.payload))
               /\ given.payload = StructAge => input = SingleEntry(NameTest, TextAge1)
        /\ op.name = "from_str" => (res.ok /\ res.val = given)

(***************************************************************************)
(* C7: a tuple variant V with members f1..fn is written as                 *)
(* {"V":[f1,...,fn]} and a struct variant V with fields k1:v1..kn:vn as    *)
(* {"V":{"k1":v1,...,"kn":vn}}; in both cases the first character written  *)
(* is '{' and the output has balanced, properly nested brackets.           *)
(***************************************************************************)
RECURSIVE Joined(_)
Joined(texts) ==
    IF texts = <<>> THEN <<>>
    ELSE IF Len(texts) = 1 THEN texts[1]
    ELSE texts[1] \o Comma \o Joined(Tail(texts))

MemberTexts(items) == [k \in 1..Len(items) |-> to_string(items[k])]
FieldTexts(fields) ==
    [k \in 1..Len(fields) |-> Quoted(fields[k][1]) \o Colon \o to_string(fields[k][2])]

Closes(c) == IF c = ChRBracket THEN ChLBracket ELSE ChLCurly

(* brackets outside string literals, scanned left to right with a stack *)
RECURSIVE Nests(_, _, _, _)
Nests(text, i, open, inString) ==
    IF i > Len(text) THEN open = <<>> /\ ~inString
    ELSE IF inString
         THEN IF text[i] = ChBackslash THEN Nests(text, i + 2, open, TRUE)
              ELSE Nests(text, i + 1, open, text[i] # ChQuote)
    ELSE IF text[i] = ChQuote THEN Nests(text, i + 1, open, TRUE)
    ELSE IF text[i] \in {ChLBracket, ChLCurly} THEN Nests(text, i + 1, <<text[i]>> \o open, FALSE)
    ELSE IF text[i] \in {ChRBracket, ChRCurly}
         THEN /\ open # <<>>
              /\ Head(open) = Closes(text[i])
              /\ Nests(text, i + 1, Tail(open), FALSE)
    ELSE Nests(text, i + 1, open, FALSE)

Balanced(text) == Nests(text, 1, <<>>, FALSE)

VariantPayload(v) ==
    IF v.k = "tuple_variant"
    THEN BracketOpen \o Joined(MemberTexts(v.items)) \o BracketClose
    ELSE CurlyOpen \o Joined(FieldTexts(v.fields)) \o CurlyClose

C7_VariantShape ==
    (op = OpToString /\ given.k \in {"tuple_variant", "struct_variant"}) =>
        /\ input = SingleEntry(given.variant, VariantPayload(given))
        /\ input[1] = ChLCurly
        /\ Balanced(input)

(***************************************************************************)
(* C9: where MapAccess asks MapKey for a generic/string key (the map has   *)
(* not ended, and the comma of an entry that is not the first is passed),  *)
(* a token that is anything but a String makes the request fail with the   *)
(* key-must-be-string error; decoding {"a":1,} fails and yields no map.    *)
(***************************************************************************)
KeyPositionAfter(first, i, n) ==
    IF ~n.res.ok \/ checkOp(n.res.tok, CurlyClose) THEN {}
    ELSE IF first THEN {i}
    ELSE IF checkOp(n.res.tok, Comma) THEN {n.cur}
    ELSE {}

(* the places of the key a request finds, none when the map ends or the    *)
(* comma is missing                                                        *)
KeyPosition(inp, i, first) == KeyPositionAfter(first, i, TokNext(inp, i))

KeyToken(inp, at) == TokNext(inp, at).res

NotAString(tok) == tok.ok /\ tok.tok.kind # "String"

KeyRefused(r) == ~r.ok /\ r.err = EJSONKeyMustBeString

TrailingComma ==
    CurlyOpen \o Quoted(TextA) \o Colon \o <<Ch1>> \o Comma \o CurlyClose

C9_KeyMustBeString ==
    [][ /\ (op'.name = "next_key_seed" /\ op'.key = "String") =>
               \A at \in KeyPosition(input, cur, access.first) :
                   NotAString(KeyToken(input, at)) => KeyRefused(res')
        /\ (op'.name = "from_str" /\ input = TrailingComma) =>
               (op'.ty.t = "Map" /\ op'.ty.key = "String" => KeyRefused(res')) /\ ~res'.ok
      ]_vars

C9_Witness ==
    /\ input = TrailingComma
    /\ op = OpNextKey("String")
    /\ before = Len(TrailingComma) - 1
    /\ KeyRefused(res)

(***************************************************************************)
(* C10: where MapAccess asks MapKey for an integer key, a token that is    *)
(* not a String makes the request fail with the key-must-be-string error;  *)
(* a String whose text parses as the integer type is handed to the visitor *)
(* as that integer; a String whose text does not parse is handed to the    *)
(* visitor as the text itself, and the request raises no error.            *)
(***************************************************************************)
Visited(r, method, arg) ==
    r.ok /\ r.some /\ r.val.visit = method /\ r.val.arg = arg

IntegerKeyExpected(ity, tok, r) ==
    IF tok.tok.kind # "String" THEN KeyRefused(r)
    ELSE IF ParseInt(tok.tok.str, ity).ok
         THEN Visited(r, "visit_" \o ity, ParseInt(tok.tok.str, ity).val)
         ELSE Visited(r, "visit_string", tok.tok.str)

C10_IntegerKeyFallback ==
    [][ (op'.name = "next_key_seed" /\ op'.key # "String") =>
            \A at \in KeyPosition(input, cur, access.first) :
                KeyToken(input, at).ok =>
                    IntegerKeyExpected(op'.key, KeyToken(input, at), res')
      ]_vars

C10_Witness ==
    /\ op = OpNextKey("i8")
    /\ Visited(res, "visit_string", <<Ch3, Ch0, Ch0>>)

(***************************************************************************)
(* C8: for every valid input s, prefixing s with a mix of space, tab, CR   *)
(* and LF, or with one byte-order mark, yields the same tokens (spans      *)
(* shifted by the length of the prefix) and the same decode result.        *)
(***************************************************************************)
Valid(inp) == from_str(TValue, inp).ok

Shifted(tok, n) ==
    IF "start" \in DOMAIN tok THEN [tok EXCEPT !.start = @ + n, !.end = @ + n] ELSE tok

SameToken(r, t, n) ==
    IF r.ok THEN t.ok /\ t.tok = Shifted(r.tok, n)
    ELSE ~t.ok /\ t.err.e = r.err.e

SameBehindPrefix ==
    /\ op.name = "next" => SameToken(res, twin.res, ByteLen(twin.prefix))
    /\ op.name = "from_str" => twin.res = res

C8_PrefixInsensitive ==
    (twin # NoTwin /\ Valid(input)) => SameBehindPrefix

(***************************************************************************)
(* C8, amended: the same, for every valid input s that does not itself     *)
(* begin with a byte-order mark.                                           *)
(***************************************************************************)
LeadingBOM(inp) == inp # <<>> /\ inp[1] = ChBOM

C8_PrefixInsensitiveNoLeadingBOM ==
    (twin # NoTwin /\ Valid(input) /\ ~LeadingBOM(input)) => SameBehindPrefix

C8_Witness ==
    /\ twin # NoTwin
    /\ twin.prefix = <<ChBOM>>
    /\ input = <<ChLBracket, Ch1, ChComma, ChQuote, ChEAcute, ChQuote, ChRBracket>>
    /\ op.name = "next"
    /\ res.ok
    /\ res.tok.kind = "String"
    /\ twin.res.ok
    /\ twin.res.tok.start = res.tok.start + 3

(***************************************************************************)
(* C11: the payload of a string token is the owned (Escaped) variant if    *)
(* and only if the literal holds a backslash; a literal without one gives  *)
(* the borrowed (NotEscaped) variant, equal to the input strictly between  *)
(* the opening and the closing quote.                                      *)
(***************************************************************************)
HasBackslash(text) == \E k \in 1..Len(text) : text[k] = ChBackslash

(* the text between the quotes of the literal the last next() lexed *)
LiteralBody == SubSeq(input, FirstNonWs(input, before) + 1, cur - 2)

C11_ZeroCopyStrings ==
    (op = OpNext /\ res.ok /\ res.tok.kind = "String") =>
        /\ res.tok.escaped <=> HasBackslash(LiteralBody)
        /\ ~HasBackslash(LiteralBody) => (~res.tok.escaped /\ res.tok.str = LiteralBody)

C11_Witness ==
    /\ op = OpNext
    /\ res.ok
    /\ res.tok.kind = "String"
    /\ ~res.tok.escaped
    /\ res.tok.str = <<ChLowerA, ChEAcute>>
    /\ LiteralBody = <<ChLowerA, ChEAcute>>

(***************************************************************************)
(* C12: decoding [] yields a sequence of zero elements and decoding {} a   *)
(* map of zero entries, the first pull consuming the closing bracket and   *)
(* signalling the end; encoding the empty sequence writes exactly [] and   *)
(* encoding the empty map exactly {}.                                      *)
(***************************************************************************)
EmptySeqText == BracketOpen \o BracketClose
EmptyMapText == CurlyOpen \o CurlyClose

NoMore(r) == r.ok /\ ~r.some

C12_Emptiness ==
    /\ (input = EmptySeqText /\ op.name = "next_element_seed") => (NoMore(res) /\ cur = 3)
    /\ (input = EmptyMapText /\ op.name = "next_key_seed") => (NoMore(res) /\ cur = 3)
    /\ (input = EmptySeqText /\ op.name = "from_str" /\ op.ty.t = "Value") =>
           (res.ok /\ res.val = VSeq(<<>>) /\ cur = 3)
    /\ (input = EmptyMapText /\ op.name = "from_str" /\ op.ty.t \in {"Value", "Map"}) =>
           (res.ok /\ res.val = VMap(<<>>) /\ cur = 3)
    /\ (given = VSeq(<<>>) /\ op = OpToString) => input = EmptySeqText
    /\ (given = VMap(<<>>) /\ op = OpToString) => input = EmptyMapText

C12_Witness ==
    /\ input = EmptySeqText
    /\ given = NoValue
    /\ op = OpNextElement(TValue)
    /\ before = 2
    /\ NoMore(res)
    /\ cur = 3

(***************************************************************************)
(* C13: when the input ends before the closing quote of a string literal,  *)
(* outside any escape, next() fails with UnterminatedString at the         *)
(* starting offset of the literal, the byte offset of its opening quote.   *)
(***************************************************************************)
(* the literal opened at index f runs to the end of the input with no      *)
(* escape in it                                                            *)
EndsInLiteral(inp, f) ==
    /\ f <= Len(inp)
    /\ inp[f] = ChQuote
    /\ \A k \in (f + 1)..Len(inp) : inp[k] \notin {ChQuote, ChBackslash}

C13_UnterminatedAtStart ==
    (op = OpNext /\ EndsInLiteral(input, FirstNonWs(input, before))) =>
        /\ ~res.ok
        /\ res.err.e = "UnterminatedString"
        /\ res.err.at = Off(input, FirstNonWs(input, before))

(***************************************************************************)
(* C14: after a leading 't', 'f' or 'n' the tokenizer requires 'rue',      *)
(* 'alse' or 'ull'.  At the first differing character it fails with the    *)
(* mismatch error carrying that character's byte offset, the expected and  *)
(* the found character; when the input ends inside the literal it fails    *)
(* with the end-of-input-while-parsing-value error; on success it consumes *)
(* exactly the 4 or 5 characters of the literal and returns Bool or Null.  *)
(***************************************************************************)
Keyword(ch) ==
    CASE ch = ChLowerT -> <<ChLowerT, ChLowerR, ChLowerU, ChLowerE>>
      [] ch = ChLowerF -> <<ChLowerF, ChLowerA, ChLowerL, ChLowerS, ChLowerE>>
      [] ch = ChLowerN -> <<ChLowerN, ChLowerU, ChLowerL, ChLowerL>>

(* the places of the keyword kw, begun at index f, where the input differs *)
(* or has ended                                                            *)
Differing(inp, f, kw) ==
    {k \in 2..Len(kw) : f + k - 1 > Len(inp) \/ inp[f + k - 1] # kw[k]}

Min(S) == CHOOSE k \in S : \A m \in S : k <= m

KeywordToken(inp, f, kw, r, after) ==
    /\ r.ok
    /\ r.tok.kind = IF kw[1] = ChLowerN THEN "Null" ELSE "Bool"
    /\ kw[1] # ChLowerN => r.tok.val = (kw[1] = ChLowerT)
    /\ r.tok.start = Off(inp, f)
    /\ r.tok.end = Off(inp, f) + Len(kw)
    /\ after = f + Len(kw)

KeywordError(inp, at, expected, r) ==
    /\ ~r.ok
    /\ IF at > Len(inp) THEN r.err.e = "EofWhileParsingValue"
       ELSE r.err = [e |-> "Wanted", at |-> Off(inp, at), expected |-> expected,
                     found |-> inp[at]]

KeywordLexed(inp, f, kw, r, after) ==
    IF Differing(inp, f, kw) = {} THEN KeywordToken(inp, f, kw, r, after)
    ELSE KeywordError(inp, f + Min(Differing(inp, f, kw)) - 1,
                      kw[Min(Differing(inp, f, kw))], r)

KeywordAt(inp, f) == f <= Len(inp) /\ inp[f] \in {ChLowerT, ChLowerF, ChLowerN}

C14_KeywordLiterals ==
    (op = OpNext /\ KeywordAt(input, FirstNonWs(input, before))) =>
        KeywordLexed(input, FirstNonWs(input, before),
                     Keyword(input[FirstNonWs(input, before)]), res, cur)

(* "tr" before an e-acute: 'u' was expected at offset 2 *)
C14_Witness ==
    /\ op = OpNext
    /\ input = <<ChLowerT, ChLowerR, ChEAcute>>
    /\ res = Err(EWanted(2, ChLowerU, ChEAcute))

(***************************************************************************)
(* C15: struct decoding proceeds only when the next token is '{' or '[';   *)
(* for any other next token it fails with the not-an-object/array error    *)
(* and consumes no token.  Enum decoding fails with the enum-shape error   *)
(* when the next token is not '{', and has consumed that token.            *)
(***************************************************************************)
Opener(tok) == checkOp(tok, CurlyOpen) \/ checkOp(tok, BracketOpen)

StructShapeChecked(n, r, after) ==
    IF Opener(n.res.tok)
    THEN r.ok \/ r.err # EInvalidStructString
    ELSE r = Err(EInvalidStructString) /\ after = before

EnumShapeChecked(n, r, after) ==
    ~checkOp(n.res.tok, CurlyOpen) => (r = Err(EInvalidEnumString) /\ after = n.cur)

ShapeChecked(ty, n, r, after) ==
    n.res.ok =>
        /\ ty.t = "Struct" => StructShapeChecked(n, r, after)
        /\ ty.t = "Enum" => EnumShapeChecked(n, r, after)

C15_ShapeErrors ==
    op.name = "from_str" => ShapeChecked(op.ty, TokNext(input, before), res, cur)

(* a struct asked of the text  1 : nothing consumed behind the whitespace *)
C15_Witness ==
    /\ op = OpFromStr(StructA)
    /\ input = <<ChSpace, Ch1>>
    /\ res = Err(EInvalidStructString)
    /\ cur = 1

(***************************************************************************)
(* C16: encoding a unit variant named N writes exactly the quoted string   *)
(* "N" with no object around it, and decoding that text as the enum fails  *)
(* with the enum-shape error.                                              *)
(***************************************************************************)
C16_UnitVariantAsymmetry ==
    given.k = "unit_variant" =>
        /\ op = OpToString => input = Quoted(given.variant)
        /\ op.name = "from_str" =>
               (op.ty.t = "Enum" /\ input = Quoted(given.variant)
                    /\ res = Err(EInvalidEnumString))

C16_Witness ==
    /\ given = VUnitVariant(NameE, NameU)
    /\ input = Quoted(NameU)
    /\ op.name = "from_str"
    /\ res = Err(EInvalidEnumString)

(***************************************************************************)
(* C17: while the encoder is called, the output buffer ends in '[' (resp.  *)
(* '{') only right after that opener was written and before the first     *)
(* member of its collection is begun, so that in every sequence, tuple,    *)
(* map or struct the writer has put a comma before each member but the     *)
(* first: one comma fewer than the members begun.                          *)
(***************************************************************************)
(* nothing of a member is written: none is begun, or the first is begun    *)
(* and its own calls are still to come                                     *)
FreshlyOpened(frame, kinds) ==
    /\ frame.kind \in kinds
    /\ \/ frame.members = 0 /\ frame.awaits = "member"
       \/ frame.members = 1 /\ frame.awaits = "value"

CommasOf(frame) == IF frame.members = 0 THEN 0 ELSE frame.members - 1

C17_SeparatorInvariant ==
    ser # NoSer =>
        /\ ends_with(input, ChLBracket) => FreshlyOpened(Top(ser.stack), SeqKinds)
        /\ ends_with(input, ChLCurly) => FreshlyOpened(Top(ser.stack), MapKinds)
        /\ \A k \in 1..Len(ser.stack) : ser.stack[k].commas = CommasOf(ser.stack[k])

(* a second member begun after an empty sequence as the first: [[], *)
C17_Witness ==
    /\ ser # NoSer
    /\ input = <<ChLBracket, ChLBracket, ChRBracket, ChComma>>
    /\ Top(ser.stack).members = 2
    /\ Top(ser.stack).commas = 1

(***************************************************************************)
(* C18: when an enum value {"Name":payload} is decoded as an element of a  *)
(* sequence or as a value of a map, the closing '}' of its object is       *)
(* consumed before the next pull of the enclosing accessor, which so sees  *)
(* ',' or the enclosing closer: pulling enum values from                   *)
(* [{"A":null},{"A":null}] yields two elements and then the end.           *)
(***************************************************************************)
TwoEnumsText == BracketOpen \o EnumAText \o Comma \o EnumAText \o BracketClose
TwoEnumEntriesText == CurlyOpen \o EntryAText \o Comma \o EntryAText \o CurlyClose

EnumPulled ==
    /\ op.name \in {"next_element_seed", "next_value_seed"}
    /\ op.ty.t = "Enum"
    /\ res.ok
    /\ op.name = "next_element_seed" => res.some

(* the token the next pull of the enclosing accessor meets *)
SeesSeparatorOrCloser(tok) ==
    /\ tok.ok
    /\ \/ checkOp(tok.tok, Comma)
       \/ checkOp(tok.tok, IF op.name = "next_element_seed" THEN BracketClose
                           ELSE CurlyClose)

C18_EnumCloserConsumed ==
    /\ (input \in {TwoEnumsText, TwoEnumEntriesText} /\ EnumPulled) =>
           /\ input[cur - 1] = ChRCurly
           /\ SeesSeparatorOrCloser(TokPeek(input, cur).res)
    /\ (input = TwoEnumsText /\ op = OpNextElement(EnumA)) =>
           /\ res.ok
           /\ res.some => res.val = VUnitVariant(<<ChUpperE>>, <<ChUpperA>>)
           /\ ~res.some => cur = Len(input) + 1

(***************************************************************************)
(* C19.  Sequence access.  After '[' has been consumed, repeated pulls on  *)
(* a well-formed array of n comma-separated elements yield exactly the n   *)
(* elements in textual order and then the end of the sequence, leaving     *)
(* the cursor just past the matching ']'.  Each pull first checks for ']'  *)
(* (consumed, and the sequence ends); otherwise it requires and consumes   *)
(* a ',' exactly when it is not the first pull, and then decodes one       *)
(* element.  Two adjacent elements without a comma, as in [1 2], make the  *)
(* pull fail with the unexpected-token error.                              *)
(***************************************************************************)
SeqElems ==
    { <<TextOne, VInt(FALSE, <<1>>)>>,
      <<TextTwo, VInt(FALSE, <<2>>)>>,
      <<TextK, VStr(<<ChLowerK>>)>> }

ElemTexts(q) == [k \in 1..Len(q) |-> q[k][1]]
ElemValues(q) == [k \in 1..Len(q) |-> q[k][2]]

ArrayText(q) == BracketOpen \o Joined(ElemTexts(q)) \o BracketClose

(* the cursor behind the first k elements of the array of q *)
AfterElems(q, k) == Len(BracketOpen \o Joined(SubSeq(ElemTexts(q), 1, k))) + 1

SeqPulledInOrder(q) ==
    /\ res.ok
    /\ res.some => \E k \in 1..Len(q) : /\ before = AfterElems(q, k - 1)
                                        /\ cur = AfterElems(q, k)
                                        /\ res.val = q[k][2]
    /\ ~res.some => /\ before = AfterElems(q, Len(q))
                    /\ cur = Len(input) + 1

WellFormedArray ==
    \A q \in SeqsUpTo(SeqElems, 2) :
        input = ArrayText(q) =>
            /\ op = OpNextElement(TValue) => SeqPulledInOrder(q)
            /\ op = OpFromStr(TValue) => /\ res = [ok |-> TRUE, val |-> VSeq(ElemValues(q))]
                                         /\ cur = Len(input) + 1

(* a pull handed over what decoding one element at i gives *)
DecodedAt(ty, i) ==
    LET same(d) ==
            /\ cur' = d.cur
            /\ res'.ok = d.ok
            /\ d.ok => res'.some /\ res'.val = d.val
            /\ ~d.ok => res'.err = d.err
    IN  same(Deserialize(ty, input, i))

SeqPullStep ==
    op'.name = "next_element_seed" =>
        LET at(tok) ==
                tok.res.ok =>
                    IF checkOp(tok.res.tok, BracketClose)
                    THEN res'.ok /\ ~res'.some /\ cur' = tok.cur
                    ELSE IF access.first THEN DecodedAt(op'.ty, cur)
                    ELSE IF checkOp(tok.res.tok, Comma) THEN DecodedAt(op'.ty, tok.cur)
                    ELSE ~res'.ok /\ res'.err = EOpNotExist(Comma)
        IN  at(TokNext(input, cur))

C19_SequenceAccess == [](WellFormedArray) /\ [][SeqPullStep]_vars

TwoText == BracketOpen \o TextOne \o Comma \o TextTwo \o BracketClose
AdjacentText == BracketOpen \o TextOne \o TextTwo \o BracketClose

(* on [1 2] the second pull has failed for want of a comma *)
AdjacentRefused ==
    /\ input = AdjacentText
    /\ op = OpNextElement(TValue)
    /\ ~res.ok
    /\ res.err = EOpNotExist(Comma)

(* C19: on [1, 2] the third pull has met ']' behind the two elements and   *)
(* left the cursor behind it                                               *)
C19_Witness ==
    /\ input = TwoText
    /\ op = OpNextElement(TValue)
    /\ res.ok
    /\ ~res.some
    /\ before = Len(input)
    /\ cur = Len(input) + 1


(***************************************************************************)
(* C20.  Map access.  After '{' has been consumed, alternating key pulls   *)
(* and value pulls on a well-formed object of n entries yield the n (key,  *)
(* value) pairs in textual order and then the end of the map, leaving the  *)
(* cursor just past the matching '}'.  The key pull ends on '}';           *)
(* otherwise it requires ',' exactly when it is not the first entry and    *)
(* decodes the key through map-key access.  The value pull requires and    *)
(* consumes ':' before decoding the value, and fails with the              *)
(* unexpected-token error when the token after the key is not ':'.         *)
(***************************************************************************)
MapEntries ==
    { [key |-> TextK, text |-> EntryK1, pair |-> <<VStr(<<ChLowerK>>), VInt(FALSE, <<1>>)>>],
      [key |-> TextJ, text |-> EntryJ2, pair |-> <<VStr(<<ChLowerJ>>), VInt(FALSE, <<2>>)>>] }

EntryTexts(q) == [k \in 1..Len(q) |-> q[k].text]
EntryPairs(q) == [k \in 1..Len(q) |-> q[k].pair]

ObjectText(q) == CurlyOpen \o Joined(EntryTexts(q)) \o CurlyClose

(* the cursor behind the first k entries of the object of q, and behind    *)
(* the key of its k-th entry                                               *)
AfterEntries(q, k) == Len(CurlyOpen \o Joined(SubSeq(EntryTexts(q), 1, k))) + 1
AfterKey(q, k) ==
    AfterEntries(q, k - 1) + (IF k = 1 THEN 0 ELSE Len(Comma)) + Len(q[k].key)

KeyPulledInOrder(q) ==
    /\ res.ok
    /\ res.some => \E k \in 1..Len(q) : /\ before = AfterEntries(q, k - 1)
                                        /\ cur = AfterKey(q, k)
                                        /\ res.val.visit \in {"visit_string", "visit_borrowed_str"}
                                        /\ res.val.arg = q[k].pair[1].s
    /\ ~res.some => /\ before = AfterEntries(q, Len(q))
                    /\ cur = Len(input) + 1

ValuePulledInOrder(q) ==
    /\ res.ok
    /\ \E k \in 1..Len(q) : /\ before = AfterKey(q, k)
                            /\ cur = AfterEntries(q, k)
                            /\ res.val = q[k].pair[2]

WellFormedObject ==
    \A q \in SeqsUpTo(MapEntries, 2) :
        input = ObjectText(q) =>
            /\ op.name = "next_key_seed" => KeyPulledInOrder(q)
            /\ op = OpNextValue(TValue) => ValuePulledInOrder(q)
            /\ op \in {OpFromStr(TValue), OpFromStr(TMap("String", TValue))} =>
                   /\ res = [ok |-> TRUE, val |-> VMap(EntryPairs(q))]
                   /\ cur = Len(input) + 1

(* a key pull handed over the visit that map-key access makes at i *)
KeyDecodedAt(kty, i) ==
    LET same(d) ==
            /\ cur' = d.cur
            /\ res'.ok = d.ok
            /\ d.ok => res'.some /\ res'.val.visit = d.val.visit /\ res'.val.arg = d.val.arg
            /\ ~d.ok => res'.err = d.err
    IN  same(MapKey_deserialize(kty, input, i))

KeyPullStep ==
    op'.name = "next_key_seed" =>
        LET at(tok) ==
                tok.res.ok =>
                    IF checkOp(tok.res.tok, CurlyClose)
                    THEN res'.ok /\ ~res'.some /\ cur' = tok.cur
                    ELSE IF access.first THEN KeyDecodedAt(op'.key, cur)
                    ELSE IF checkOp(tok.res.tok, Comma) THEN KeyDecodedAt(op'.key, tok.cur)
                    ELSE ~res'.ok /\ res'.err = EOpNotExist(Comma)
        IN  at(TokNext(input, cur))

(* a value pull handed over what decoding one value at i gives *)
ValueDecodedAt(ty, i) ==
    LET same(d) ==
            /\ cur' = d.cur
            /\ res'.ok = d.ok
            /\ d.ok => res'.val = d.val
            /\ ~d.ok => res'.err = d.err
    IN  same(Deserialize(ty, input, i))

ValuePullStep ==
    op'.name = "next_value_seed" =>
        LET at(tok) ==
                tok.res.ok =>
                    IF checkOp(tok.res.tok, Colon) THEN ValueDecodedAt(op'.ty, tok.cur)
                    ELSE ~res'.ok /\ res'.err = EOpNotExist(Colon) /\ cur' = tok.cur
        IN  at(TokNext(input, cur))

C20_MapAccess == [](WellFormedObject) /\ [][KeyPullStep /\ ValuePullStep]_vars

TwoEntriesText == CurlyOpen \o EntryK1 \o Comma \o EntryJ2 \o CurlyClose
NoColonText == CurlyOpen \o TextK \o TextTwo \o CurlyClose

(* on {"k" 2} the value pull has failed for want of a colon *)
NoColonRefused ==
    /\ input = NoColonText
    /\ op = OpNextValue(TValue)
    /\ ~res.ok
    /\ res.err = EOpNotExist(Colon)

(* C20: on {"k":1,"j": 2} the third key pull has met '}' behind the two    *)
(* entries and left the cursor behind it                                   *)
C20_Witness ==
    /\ input = TwoEntriesText
    /\ op.name = "next_key_seed"
    /\ res.ok
    /\ ~res.some
    /\ before = Len(input)
    /\ cur = Len(input) + 1


(***************************************************************************)
(* C21.  Decoding terminates on every finite input.  Each sequence pull,   *)
(* map key pull, map value pull and generic dispatch either consumes at    *)
(* least one token or returns an error; at the end of the input, where     *)
(* the tokenizer keeps returning the end-of-input token without            *)
(* advancing, every one of them returns an error rather than an element.   *)
(* So no loop of a binding over an unterminated array or object, such as   *)
(* [ or [1 or { or {"a":1, runs forever.                                   *)
(***************************************************************************)
DecodeOps == {"from_str", "deserialize_any", "next_element_seed", "next_key_seed",
              "next_value_seed"}

(* the tokenizer at i has nothing left but the end of the input *)
AtEnd(i) ==
    LET got(n) == n.res.ok /\ n.res.tok.kind = "EOF" /\ TokNext(input, n.cur) = n
    IN  got(TokNext(input, i))

EndRefused == (op.name \in DecodeOps /\ AtEnd(before)) => ~res.ok

(* the decoder has returned and no accessor is left to pull from *)
DecodeDone == op # OpNew /\ access = NoAccess

Unterminated ==
    { BracketOpen, BracketOpen \o <<Ch1>>, CurlyOpen,
      CurlyOpen \o <<ChQuote, ChLowerA, ChQuote, ChColon, Ch1>> }

(* a binding that pulls until the accessor reports the end *)
PullsToTheEnd == op.name = "from_str" => op.ty.t \in {"Value", "Map"}

UnterminatedRefused == (input \in Unterminated /\ DecodeDone /\ PullsToTheEnd) => ~res.ok

ConsumesOrFails ==
    (op'.name \in DecodeOps /\ res'.ok) =>
        LET got(n) == /\ n.res.ok
                      /\ n.res.tok.kind # "EOF"
                      /\ cur' >= n.cur
                      /\ cur' > cur
        IN  got(TokNext(input, cur))

(* the cursor never leaves the input, so the steps that consume are       *)
(* finitely many                                                           *)
CursorBounded == cur \in 1..(Len(input) + 1)

C21_Terminates ==
    /\ [](EndRefused /\ UnterminatedRefused /\ CursorBounded)
    /\ [][ConsumesOrFails]_vars

(* C21: on [1 the second pull stood at the end of the input and failed,    *)
(* and the visitor has no accessor left to pull from                       *)
C21_Witness ==
    /\ input = BracketOpen \o <<Ch1>>
    /\ op = OpNextElement(TValue)
    /\ AtEnd(before)
    /\ ~res.ok
    /\ DecodeDone


(***************************************************************************)
(* C22.  Integer encoding is the canonical decimal text of the value for   *)
(* every integer width: for every unsigned 64-bit value v, those with      *)
(* 2^63 <= v < 2^64 included, serialize_u64(v) appends the unquoted        *)
(* decimal representation of v, never a negative number and never a value  *)
(* reduced modulo 2^64.                                                    *)
(***************************************************************************)
DecimalText(mag) == IF mag = <<>> THEN <<Ch0>> ELSE Numeral(mag)

C22_U64Canonical ==
    (op = OpToString /\ given.k = "u64") => input = DecimalText(given.mag)


(***************************************************************************)
(* C23.  Generic dispatch rejects stray tokens.  When the token at a       *)
(* value position is ']', '}', ',', ':' or the end of the input, the       *)
(* generic decode fails with an invalid-value error and calls no method    *)
(* of the visitor.  So the empty input, a leading comma in an array        *)
(* ([,1]) and a trailing comma in an array ([1,]) all make decoding fail   *)
(* rather than give a value.                                               *)
(***************************************************************************)
StrayTexts == {BracketClose, CurlyClose, Comma, Colon}

(* the token at i is a closer, an operator or the end of the input *)
StrayAt(i) ==
    LET got(n) == /\ n.res.ok
                  /\ \/ n.res.tok.kind = "EOF"
                     \/ \E s \in StrayTexts : checkOp(n.res.tok, s)
    IN  got(TokNext(input, i))

(* the error of the dispatch itself: no visitor has refused anything *)
InvalidValue == EInvalidNumber("abc")

StrayRefused(r, c, i) == ~r.ok /\ r.err = InvalidValue /\ c = TokNext(input, i).cur

(* the bindings of DeBindings that go through deserialize_any *)
Generic(ty) == ty.t \in {"Value", "Map"}

TopLevelStray ==
    (op.name = "from_str" /\ Generic(op.ty) /\ StrayAt(before)) =>
        StrayRefused(res, cur, before)

LeadingCommaText == BracketOpen \o Comma \o TextOne \o BracketClose
TrailingCommaText == BracketOpen \o TextOne \o Comma \o BracketClose

CommaExamples ==
    (op = OpFromStr(TValue) /\ input \in {<<>>, LeadingCommaText, TrailingCommaText}) =>
        ~res.ok /\ res.err = InvalidValue

ElementStray ==
    op' = OpNextElement(TValue) =>
        LET at(tok) ==
                (tok.res.ok /\ ~checkOp(tok.res.tok, BracketClose)) =>
                    /\ (access.first /\ StrayAt(cur)) => StrayRefused(res', cur', cur)
                    /\ (~access.first /\ checkOp(tok.res.tok, Comma) /\ StrayAt(tok.cur)) =>
                           StrayRefused(res', cur', tok.cur)
        IN  at(TokNext(input, cur))

ValueStray ==
    op' = OpNextValue(TValue) =>
        LET at(tok) ==
                (tok.res.ok /\ checkOp(tok.res.tok, Colon) /\ StrayAt(tok.cur)) =>
                    StrayRefused(res', cur', tok.cur)
        IN  at(TokNext(input, cur))

C23_StrayTokensRefused ==
    /\ [](TopLevelStray /\ CommaExamples)
    /\ [][ElementStray /\ ValueStray]_vars

(* C23: [1,] decoded as a value has failed at the ']' behind the comma *)
C23_Witness ==
    /\ input = TrailingCommaText
    /\ op = OpFromStr(TValue)
    /\ ~res.ok
    /\ res.err = InvalidValue
    /\ cur = Len(input) + 1


(***************************************************************************)
(* C24.  Enum decoding consumes, in order, the opening '{', the token of   *)
(* the variant name, a ':' and then the payload, each composite payload    *)
(* consuming its own closing bracket.  It does not consume the closing     *)
(* '}' of the outer object: after an enum is decoded from the well-formed  *)
(* text {"Name":payload} exactly one '}' remains as the next token, for    *)
(* unit, newtype, tuple and struct variants alike.                         *)
(***************************************************************************)
WellFormedVariants == {head \o CurlyClose : head \in VariantHeads}

(* what is left at i is one '}' and then the end of the input *)
OneCurlyLeft(i) ==
    LET got(n) == /\ n.res.ok
                  /\ checkOp(n.res.tok, CurlyClose)
                  /\ TokNext(input, n.cur).res.ok
                  /\ TokNext(input, n.cur).res.tok.kind = "EOF"
    IN  got(TokNext(input, i))

C24_EnumLeavesOneCurly ==
    (op = OpFromStr(EnumAll) /\ input \in WellFormedVariants) =>
        /\ res.ok
        /\ OneCurlyLeft(cur)


(***************************************************************************)
(* C25.  Escape errors inside a string.  '\u' must be followed by exactly  *)
(* 4 and '\U' by exactly 8 ASCII hex digits.  A character among them that  *)
(* is no hex digit fails with InvalidHexEscape carrying that character     *)
(* and its offset; input that ends inside an escape fails with             *)
(* UnterminatedString; a hex value that is no Unicode scalar value (a      *)
(* surrogate D800..DFFF or a value above 10FFFF) fails with                *)
(* InvalidEscapeValue carrying the value; a backslash followed by any      *)
(* character other than " \ / b f n r t u U fails with InvalidEscape.      *)
(* Every one of these cases is an error returned, not a panic.             *)
(***************************************************************************)
EscapeLetters ==
    {ChQuote, ChBackslash, ChSlash, ChLowerB, ChLowerF, ChLowerN, ChLowerR, ChLowerT}

(* the index of the first backslash of the input *)
FirstBackslash ==
    CHOOSE i \in 1..Len(input) :
        input[i] = ChBackslash /\ \A j \in 1..(i - 1) : input[j] # ChBackslash

HexLength(letter) == IF letter = ChLowerU THEN 4 ELSE 8

(* the places of the hex digits of the escape at b, and those of them      *)
(* that hold no hex digit or lie behind the end of the input               *)
DigitPlaces(b) == (b + 2)..(b + 1 + HexLength(input[b + 1]))
BadPlaces(b) == {k \in DigitPlaces(b) : k > Len(input) \/ ~IsAsciiHexDigit(input[k])}
FirstBad(b) == CHOOSE k \in BadPlaces(b) : \A j \in BadPlaces(b) : k <= j

RECURSIVE HexNat(_)
HexNat(d) ==
    IF d = <<>> THEN 0 ELSE 16 * HexNat(SubSeq(d, 1, Len(d) - 1)) + HexDigitVal(d[Len(d)])

(* the digits of the escape at b; more than six significant digits are     *)
(* above every code point                                                  *)
HexDigits(b) == SubSeq(input, b + 2, b + 1 + HexLength(input[b + 1]))
AboveSix(d) == \E k \in 1..(Len(d) - 6) : d[k] # Ch0
LowSix(d) == HexNat(SubSeq(d, IF Len(d) > 6 THEN Len(d) - 5 ELSE 1, Len(d)))
NoScalar(d) ==
    \/ AboveSix(d)
    \/ LowSix(d) > CharMax
    \/ LowSix(d) \in SurrogateLo..SurrogateHi

Fails(kind) == ~res.ok /\ res.err.e = kind

(* the literal behind the escape: the rest up to the closing quote *)
RECURSIVE UpToQuote(_, _)
UpToQuote(i, acc) ==
    IF i > Len(input) THEN [closed |-> FALSE]
    ELSE IF input[i] = ChQuote THEN [closed |-> TRUE, str |-> acc]
    ELSE UpToQuote(i + 1, Append(acc, input[i]))

HexEscapeDecoded(b, rest) ==
    IF rest.closed
    THEN /\ res.ok
         /\ res.tok.kind = "String"
         /\ res.tok.str = SubSeq(input, 2, b - 1) \o <<LowSix(HexDigits(b))>> \o rest.str
    ELSE Fails("UnterminatedString")

HexEscapeChecked(b) ==
    IF BadPlaces(b) # {}
    THEN IF FirstBad(b) > Len(input) THEN Fails("UnterminatedString")
         ELSE ~res.ok /\ res.err = EInvalidHexEscape(Off(input, FirstBad(b)), input[FirstBad(b)])
    ELSE IF NoScalar(HexDigits(b))
         THEN /\ Fails("InvalidEscapeValue")
              /\ ~AboveSix(HexDigits(b)) => res.err.val = LowSix(HexDigits(b))
         ELSE HexEscapeDecoded(b, UpToQuote(b + 2 + HexLength(input[b + 1]), <<>>))

EscapeChecked(b) ==
    IF b + 1 > Len(input) THEN Fails("UnterminatedString")
    ELSE IF input[b + 1] \in {ChLowerU, ChUpperU} THEN HexEscapeChecked(b)
    ELSE IF input[b + 1] \in EscapeLetters
         THEN res.ok \/ Fails("UnterminatedString")
         ELSE ~res.ok /\ res.err = EInvalidEscape(Off(input, b + 1), input[b + 1])

C25_EscapeErrors ==
    (op = OpNext /\ before = 1 /\ input[1] = ChQuote) => EscapeChecked(FirstBackslash)

(* C25: "\uD800" has failed with the surrogate as the value of the error,  *)
(* at the offset of the 'u'                                                *)
C25_Witness ==
    /\ input = <<ChQuote, ChBackslash, ChLowerU, ChUpperD, Ch8, Ch0, Ch0, ChQuote>>
    /\ op = OpNext
    /\ before = 1
    /\ ~res.ok
    /\ res.err = EInvalidEscapeValue(2, SurrogateLo)


(***************************************************************************)
(* C26.  Tokenizer::expect(s) always consumes exactly one token when the   *)
(* lexing succeeds, also when expect then fails.  It returns Ok if and     *)
(* only if that token is an Operator or a Bracket whose text equals s      *)
(* exactly, and otherwise fails with the unexpected-token error carrying   *)
(* s; a lexing error of the consumed token is returned unchanged.          *)
(***************************************************************************)
AskedFor(tok, s) == tok.kind \in {"Operator", "Bracket"} /\ tok.text = s

ExpectChecked(n) ==
    /\ cur = n.cur
    /\ IF ~n.res.ok THEN res = n.res
       ELSE IF AskedFor(n.res.tok, op.arg) THEN res = OkUnit
       ELSE res = Err(EOpNotExist(op.arg))

C26_ExpectConsumesOne == op.name = "expect" => ExpectChecked(TokNext(input, before))

(* C26: an expect has met a token that is not the one asked for, has       *)
(* consumed it and has failed with the text asked for                      *)
Unasked(n) == n.res.ok /\ n.res.tok.kind # "EOF" /\ ~AskedFor(n.res.tok, op.arg)

C26_Witness ==
    /\ op.name = "expect"
    /\ Unasked(TokNext(input, before))
    /\ cur > before
    /\ res = Err(EOpNotExist(op.arg))


(***************************************************************************)
(* C27.  from_str decodes exactly one value from the front of the input    *)
(* and returns it without checking the rest: tokens or characters that     *)
(* follow the first complete value, as in "1 2", "true]" and "null x",     *)
(* are never lexed and never cause an error.                               *)
(***************************************************************************)
StartsWith(text) == Len(input) >= Len(text) /\ SubSeq(input, 1, Len(text)) = text

C27_TrailingIgnored ==
    \A f \in Firsts :
        (op = OpFromStr(TValue) /\ StartsWith(f.text)) =>
            /\ res = [ok |-> TRUE, val |-> f.val]
            /\ cur = Len(f.text) + 1

(* C27: "1 2" has been decoded to 1 with the cursor behind the 1 *)
C27_Witness ==
    /\ input = TextOne \o TextTwo
    /\ op = OpFromStr(TValue)
    /\ res = [ok |-> TRUE, val |-> VInt(FALSE, <<1>>)]
    /\ cur = Len(TextOne) + 1


====
